---------------------------- MODULE Spec2Model ----------------------------
(***************************************************************************)
(* Static packed Hilbert R-tree of road segments (StaticRTree.h): the bulk *)
(* loader, the leaf file and tree file it writes, and the best-first       *)
(* nearest-neighbour queries that run on the loaded tree.                  *)
(*                                                                         *)
(* Arrays are 0-based in the source.  A C++ vector is a TLA+ sequence, and *)
(* element i of the vector is element i + 1 of the sequence; child ids,    *)
(* page ids and array indices keep their 0-based source values.            *)
(***************************************************************************)
EXTENDS Integers, Naturals, Sequences, FiniteSets, Bags, TLC

(***************************************************************************)
(* Bounds of the model.  BRANCHING_FACTOR and LEAF_NODE_SIZE are template  *)
(* parameters of the class (64 and 1024 by default); the model             *)
(* instantiates the template with small values so that trees with several  *)
(* levels are built from a handful of segments.                            *)
(***************************************************************************)
BRANCHING_FACTOR == 2

LEAF_NODE_SIZE == 2

MaxN == 5

MaxK == 2

MaxCoord == 3

\* XORFastHashStorage.h: the number of values of the unsigned short probe
\* position (65536 in the source) and the largest unsigned value (node ids,
\* default cell fields and the timestamp are unsigned).
ProbePositions == 2

UnsignedMax == 2

INT_MAX == 2147483647

COORDINATE_PRECISION == 1000000

INT_MIN == -INT_MAX - 1

UninitChild == -1

(***************************************************************************)
(* Inputs.  The coordinate table and the segments are supplied by the      *)
(* caller of the build.  A segment (EdgeDataT) carries the indices u and v *)
(* of its endpoints in the coordinate table (0-based) and the              *)
(* is_in_tiny_cc tag; the routing payload the index copies verbatim is not *)
(* consulted by the build or by the traversals.                            *)
(***************************************************************************)
Coord(lat, lon) == [lat |-> lat, lon |-> lon]

coordinate_list ==
    << Coord(0, 0), Coord(0, 2), Coord(2, 2), Coord(MaxCoord, 1) >>

CoordAt(i) == coordinate_list[i + 1]

\* The node id that stands for "no node" (typedefs.h).
SPECIAL_NODEID == 0 - 1

Edge(u, v, tiny, fwd_id, rev_id) ==
    [u |-> u, v |-> v, is_in_tiny_cc |-> tiny,
     forward_edge_based_node_id |-> fwd_id, reverse_edge_based_node_id |-> rev_id,
     forward_weight |-> 10, reverse_weight |-> 10]

\* The segments the builds in every input order are given: a degenerate
\* one, one along a parallel, one along a meridian and a diagonal one, of
\* both component classes, one of them without a reverse node.
BuildPool ==
    { Edge(0, 0, FALSE, 1, 2), Edge(0, 1, TRUE, 3, 4),
      Edge(1, 2, FALSE, 5, SPECIAL_NODEID), Edge(2, 3, TRUE, 7, 8) }

\* The segments of the indexes that are queried: two of them doubled by a
\* segment of the other component class over the same coordinates.
EdgePool == BuildPool \cup { Edge(1, 2, TRUE, 9, 10), Edge(2, 3, FALSE, 11, 12) }

\* EdgeDataT(): an edge that refers to nothing.
NoEdge == Edge(SPECIAL_NODEID, SPECIAL_NODEID, FALSE, SPECIAL_NODEID, SPECIAL_NODEID)

QueryPoints == { Coord(0, 0), Coord(MaxCoord, 2), Coord(1, 1) }

SeqsUpTo(S, n) == UNION { [1..k -> S] : k \in 1..n }

Range(f) == { f[i] : i \in DOMAIN f }

(***************************************************************************)
(* Distances.  The source computes float distances and only compares them  *)
(* (and takes min and max); the model keeps the SQUARE of the planar       *)
(* distance as an exact fraction n/d, which has the same order.  FLT_MAX,  *)
(* the initial value of every running minimum, is the fraction 1/0, above  *)
(* every distance.                                                         *)
(***************************************************************************)
Frac(n, d) == [n |-> n, d |-> d]

FLT_MAX == Frac(1, 0)

Zero == Frac(0, 1)

FLess(a, b) == a.n * b.d < b.n * a.d

FLeq(a, b) == ~FLess(b, a)

FEq(a, b) == a.n * b.d = b.n * a.d

FMin(a, b) == IF FLess(b, a) THEN b ELSE a

FMax(a, b) == IF FLess(a, b) THEN b ELSE a

Sq(x) == x * x

\* FixedPointCoordinate::ApproximateEuclideanDistance: planar metric.
ApproximateEuclideanDistance(a, b) ==
    Frac(Sq(a.lat - b.lat) + Sq(a.lon - b.lon), 1)

\* FixedPointCoordinate::ComputePerpendicularDistance: the distance from p to
\* its projection on the segment uv, clamped to the endpoints; a degenerate
\* segment gives the distance to its endpoint.
ComputePerpendicularDistance(u, v, p) ==
    LET len2  == Sq(v.lat - u.lat) + Sq(v.lon - u.lon)
        dot   == (p.lat - u.lat) * (v.lat - u.lat) + (p.lon - u.lon) * (v.lon - u.lon)
        cross == (p.lat - u.lat) * (v.lon - u.lon) - (p.lon - u.lon) * (v.lat - u.lat)
    IN  IF len2 = 0 \/ dot <= 0 THEN ApproximateEuclideanDistance(p, u)
        ELSE IF dot >= len2 THEN ApproximateEuclideanDistance(p, v)
        ELSE Frac(Sq(cross), len2)

\* The five-argument overload: the distance, the foot point (rounded down to
\* fixed-point units) and the position of the foot point along uv.
ComputePerpendicularDistanceFoot(u, v, p) ==
    LET len2  == Sq(v.lat - u.lat) + Sq(v.lon - u.lon)
        dot   == (p.lat - u.lat) * (v.lat - u.lat) + (p.lon - u.lon) * (v.lon - u.lon)
    IN  [dist    |-> ComputePerpendicularDistance(u, v, p),
         nearest |-> IF len2 = 0 \/ dot <= 0 THEN u
                     ELSE IF dot >= len2 THEN v
                     ELSE Coord(u.lat + (dot * (v.lat - u.lat)) \div len2,
                                u.lon + (dot * (v.lon - u.lon)) \div len2),
         ratio   |-> IF len2 = 0 \/ dot <= 0 THEN Zero
                     ELSE IF dot >= len2 THEN Frac(1, 1) ELSE Frac(dot, len2)]

\* FixedPointCoordinate(): lat and lon hold INT_MIN.
InvalidCoordinate == Coord(INT_MIN, INT_MIN)

\* FixedPointCoordinate::isValid: both components inside the globe.
IsValid(c) ==
    /\ c.lat >= -90 * COORDINATE_PRECISION /\ c.lat <= 90 * COORDINATE_PRECISION
    /\ c.lon >= -180 * COORDINATE_PRECISION /\ c.lon <= 180 * COORDINATE_PRECISION

\* osrm::epsilon_compare: equality of two floats up to the machine epsilon.
\* On exact fractions two distances are epsilon-equal when they are equal.
epsilon_compare(a, b) == FEq(a, b)

EdgePerpDist(e, p) == ComputePerpendicularDistance(CoordAt(e.u), CoordAt(e.v), p)

(***************************************************************************)
(* RectangleInt2D                                                          *)
(***************************************************************************)
IMin(a, b) == IF a < b THEN a ELSE b

IMax(a, b) == IF a > b THEN a ELSE b

\* RectangleInt2D(): the empty rectangle.
EmptyRectangle ==
    [min_lon |-> INT_MAX, max_lon |-> INT_MIN, min_lat |-> INT_MAX, max_lat |-> INT_MIN]

\* InitializeMBRectangle reading endpoint u only.
ExtendByObjectUOnly(r, e) ==
    [min_lon |-> IMin(r.min_lon, CoordAt(e.u).lon),
     max_lon |-> IMax(r.max_lon, CoordAt(e.u).lon),
     min_lat |-> IMin(r.min_lat, CoordAt(e.u).lat),
     max_lat |-> IMax(r.max_lat, CoordAt(e.u).lat)]

\* One iteration of the loop of InitializeMBRectangle.
ExtendByObject(r, e) ==
    [min_lon |-> IMin(r.min_lon, IMin(CoordAt(e.u).lon, CoordAt(e.v).lon)),
     max_lon |-> IMax(r.max_lon, IMax(CoordAt(e.u).lon, CoordAt(e.v).lon)),
     min_lat |-> IMin(r.min_lat, IMin(CoordAt(e.u).lat, CoordAt(e.v).lat)),
     max_lat |-> IMax(r.max_lat, IMax(CoordAt(e.u).lat, CoordAt(e.v).lat))]

RECURSIVE InitializeMBRectangleFrom(_, _, _, _)
InitializeMBRectangleFrom(r, objects, element_count, i) ==
    IF i >= element_count THEN r
    ELSE InitializeMBRectangleFrom(ExtendByObject(r, objects[i + 1]), objects,
                                   element_count, i + 1)

InitializeMBRectangle(r, objects, element_count) ==
    InitializeMBRectangleFrom(r, objects, element_count, 0)

MergeBoundingBoxes(r, other) ==
    [min_lon |-> IMin(r.min_lon, other.min_lon),
     max_lon |-> IMax(r.max_lon, other.max_lon),
     min_lat |-> IMin(r.min_lat, other.min_lat),
     max_lat |-> IMax(r.max_lat, other.max_lat)]

Contains(r, location) ==
    LET lats_contained == (location.lat >= r.min_lat) /\ (location.lat <= r.max_lat)
        lons_contained == (location.lon >= r.min_lon) /\ (location.lon <= r.max_lon)
    IN  lats_contained /\ lons_contained

\* The Direction bits of GetMinDist.
NORTH == 1

SOUTH == 2

EAST == 4

WEST == 8

\* RectangleInt2D::Intersects, lines 128-137: a corner of other lies in r.
Intersects(r, other) ==
    LET upper_left  == Coord(other.max_lat, other.min_lon)
        upper_right == Coord(other.max_lat, other.max_lon)
        lower_right == Coord(other.min_lat, other.max_lon)
        lower_left  == Coord(other.min_lat, other.min_lon)
    IN  \/ Contains(r, upper_left) \/ Contains(r, upper_right) \/ Contains(r, lower_right)
        \/ Contains(r, lower_left)

\* The distance to the nearest corner, whatever the region of the point.
GetMinDistToCorner(r, location) ==
    LET D(c) == Frac((location.lat - c.lat) * (location.lat - c.lat)
                       + (location.lon - c.lon) * (location.lon - c.lon), 1)
        least(a, b) == IF a.n < b.n THEN a ELSE b
    IN  least(least(D([lat |-> r.max_lat, lon |-> r.min_lon]),
                    D([lat |-> r.max_lat, lon |-> r.max_lon])),
              least(D([lat |-> r.min_lat, lon |-> r.max_lon]),
                    D([lat |-> r.min_lat, lon |-> r.min_lon])))

GetMinDist(r, location) ==
    IF Contains(r, location) THEN Zero
    ELSE
      LET ns == IF location.lat > r.max_lat THEN NORTH
                ELSE IF location.lat < r.min_lat THEN SOUTH ELSE 0
          ew == IF location.lon > r.max_lon THEN EAST
                ELSE IF location.lon < r.min_lon THEN WEST ELSE 0
          d  == ns + ew
      IN  CASE d = NORTH -> ApproximateEuclideanDistance(location, Coord(r.max_lat, location.lon))
            [] d = SOUTH -> ApproximateEuclideanDistance(location, Coord(r.min_lat, location.lon))
            [] d = WEST  -> ApproximateEuclideanDistance(location, Coord(location.lat, r.min_lon))
            [] d = EAST  -> ApproximateEuclideanDistance(location, Coord(location.lat, r.max_lon))
            [] d = NORTH + EAST -> ApproximateEuclideanDistance(location, Coord(r.max_lat, r.max_lon))
            [] d = NORTH + WEST -> ApproximateEuclideanDistance(location, Coord(r.max_lat, r.min_lon))
            [] d = SOUTH + EAST -> ApproximateEuclideanDistance(location, Coord(r.min_lat, r.max_lon))
            [] d = SOUTH + WEST -> ApproximateEuclideanDistance(location, Coord(r.min_lat, r.min_lon))
            [] OTHER -> FLT_MAX

\* The smaller of the two corner distances taken for every side.
GetMinMinDist(r, location) == GetMinDistToCorner(r, location)

GetMinMaxDist(r, location) ==
    LET upper_left  == Coord(r.max_lat, r.min_lon)
        upper_right == Coord(r.max_lat, r.max_lon)
        lower_right == Coord(r.min_lat, r.max_lon)
        lower_left  == Coord(r.min_lat, r.min_lon)
        D(c)        == ApproximateEuclideanDistance(location, c)
        m1 == FMin(FLT_MAX, FMax(D(upper_left), D(upper_right)))
        m2 == FMin(m1, FMax(D(upper_right), D(lower_right)))
        m3 == FMin(m2, FMax(D(lower_right), D(lower_left)))
        m4 == FMin(m3, FMax(D(lower_left), D(upper_left)))
    IN  m4

(***************************************************************************)
(* Hilbert values of the segment centroids (phase 1 of the build).         *)
(***************************************************************************)
\* EdgeDataT::Centroid: the midpoint of the two endpoints, truncating.
Centroid(a, b) ==
    Coord((IMin(a.lat, b.lat) + IMax(a.lat, b.lat)) \div 2,
          (IMin(a.lon, b.lon) + IMax(a.lon, b.lon)) \div 2)

\* COORDINATE_PRECISION * lat2y(lat / COORDINATE_PRECISION): the Mercator
\* projection of a latitude, in fixed-point units.  Within a few units of the
\* equator, where the model's coordinates lie, the projected value truncates
\* to the latitude itself.
MercatorLat(lat) == lat

RECURSIVE Pow2Above(_, _)
Pow2Above(n, s) == IF s > n THEN s ELSE Pow2Above(n, 2 * s)

\* Side of the square the Hilbert curve fills: a power of two above MaxCoord.
HilbertSide == Pow2Above(MaxCoord, 1)

\* HilbertCode::operator(): position of (x, y) along the Hilbert curve.
RECURSIVE HilbertXY2D(_, _, _)
HilbertXY2D(s, x, y) ==
    IF s = 0 THEN 0
    ELSE LET rx == (x \div s) % 2
             ry == (y \div s) % 2
             quadrant == IF rx = 1 THEN 3 - ry ELSE ry
             fx == IF ry = 0 /\ rx = 1 THEN HilbertSide - 1 - x ELSE x
             fy == IF ry = 0 /\ rx = 1 THEN HilbertSide - 1 - y ELSE y
             nx == IF ry = 0 THEN fy ELSE fx
             ny == IF ry = 0 THEN fx ELSE fy
         IN  s * s * quadrant + HilbertXY2D(s \div 2, nx, ny)

HilbertCode(c) == HilbertXY2D(HilbertSide \div 2, c.lon, c.lat)

\* The body of the parallel_for of lines 357-381 for one element.
WrappedInputElement(input_data_vector, element_counter) ==
    LET current_element  == input_data_vector[element_counter + 1]
        current_centroid == Centroid(CoordAt(current_element.u), CoordAt(current_element.v))
        projected        == Coord(MercatorLat(current_centroid.lat), current_centroid.lon)
    IN  [m_hilbert_value |-> HilbertCode(projected), m_array_index |-> element_counter]

HilbertWrappers(input_data_vector) ==
    [i \in 1..Len(input_data_vector) |-> WrappedInputElement(input_data_vector, i - 1)]

\* WrappedInputElement::operator<
WrappedLess(a, b) == a.m_hilbert_value < b.m_hilbert_value

\* tbb::parallel_sort: every arrangement of the wrappers in which none is
\* followed by a smaller one; the order of equal elements is not fixed.
RECURSIVE SortedArrangements(_)
SortedArrangements(S) ==
    IF S = {} THEN { <<>> }
    ELSE LET least == { w \in S : \A o \in S : ~WrappedLess(o, w) }
         IN  UNION { { <<w>> \o rest : rest \in SortedArrangements(S \ {w}) } : w \in least }

\* The wrappers left in the order of the input.
InputOrder(wrappers) == { wrappers }

ParallelSort(wrappers) == SortedArrangements(Range(wrappers))

(***************************************************************************)
(* Tree nodes and leaf pages                                               *)
(***************************************************************************)
\* TreeNode(): child_count(0), child_is_on_disk(false), children not set.
NewTreeNode ==
    [minimum_bounding_rectangle |-> EmptyRectangle,
     child_count      |-> 0,
     child_is_on_disk |-> FALSE,
     children         |-> [j \in 1..BRANCHING_FACTOR |-> UninitChild]]

Child(node, j) == node.children[j + 1]

\* A leaf page stored in the leaf file without all of its slots used.
PackLeafOneObject(input_data_vector, wrappers, processed_objects_count) ==
    [object_count |-> 1,
     objects |-> << input_data_vector[wrappers[processed_objects_count + 1].m_array_index + 1] >>]

\* Lines 396-412: the page holding the next LEAF_NODE_SIZE sorted objects.
\* Only the used slots of the objects array are kept.
PackLeaf(input_data_vector, wrappers, processed_objects_count) ==
    LET n    == Len(input_data_vector)
        used == IMin(LEAF_NODE_SIZE, n - processed_objects_count)
    IN  [object_count |-> used,
         objects |-> [i \in 1..used |->
                        input_data_vector[wrappers[processed_objects_count + i].m_array_index + 1]]]

\* The leaf tree node without the child_is_on_disk assignment.
LeafTreeNodeNotOnDisk(current_leaf, level_size) ==
    [NewTreeNode EXCEPT
       !.minimum_bounding_rectangle =
           InitializeMBRectangle(EmptyRectangle, current_leaf.objects, current_leaf.object_count),
       !.children[1] = level_size]

\* Lines 414-419: the tree node that stands for a leaf page.  child_count
\* keeps the 0 of the TreeNode constructor.
LeafTreeNode(current_leaf, level_size) ==
    [NewTreeNode EXCEPT
       !.minimum_bounding_rectangle =
           InitializeMBRectangle(EmptyRectangle, current_leaf.objects, current_leaf.object_count),
       !.child_is_on_disk = TRUE,
       !.children[1] = level_size]

\* The leaf-packing loop stopping when no full page is left.
RECURSIVE PackLeavesFullOnly(_, _, _, _, _)
PackLeavesFullOnly(input_data_vector, wrappers, processed_objects_count, pages, level) ==
    IF ~(processed_objects_count + LEAF_NODE_SIZE <= Len(input_data_vector))
    THEN [pages |-> pages, level |-> level]
    ELSE LET current_leaf == PackLeaf(input_data_vector, wrappers, processed_objects_count)
             current_node == LeafTreeNode(current_leaf, Len(level))
         IN  PackLeavesFullOnly(input_data_vector, wrappers,
                        processed_objects_count + current_leaf.object_count,
                        Append(pages, current_leaf), Append(level, current_node))

\* Lines 391-424: the whole leaf-packing loop.
RECURSIVE PackLeaves(_, _, _, _, _)
PackLeaves(input_data_vector, wrappers, processed_objects_count, pages, level) ==
    IF ~(processed_objects_count < Len(input_data_vector))
    THEN [pages |-> pages, level |-> level]
    ELSE LET current_leaf == PackLeaf(input_data_vector, wrappers, processed_objects_count)
             current_node == LeafTreeNode(current_leaf, Len(level))
         IN  PackLeaves(input_data_vector, wrappers,
                        processed_objects_count + current_leaf.object_count,
                        Append(pages, current_leaf), Append(level, current_node))

\* Line 447: the id a child gets is its position in the growing array.
ChildPosition(tree) == Len(tree)

\* Lines 436-457: one parent, grouping the next BRANCHING_FACTOR nodes.
RECURSIVE PackParent(_, _, _, _, _)
PackParent(level, processed, tree, parent_node, current_child_node_index) ==
    IF ~(BRANCHING_FACTOR > current_child_node_index)
    THEN [processed |-> processed, tree |-> tree, parent |-> parent_node]
    ELSE IF processed < Len(level)
    THEN LET current_child_node == level[processed + 1]
             grown == [parent_node EXCEPT
                 !.children[current_child_node_index + 1] = ChildPosition(tree),
                 !.minimum_bounding_rectangle =
                     MergeBoundingBoxes(@, current_child_node.minimum_bounding_rectangle),
                 !.child_count = @ + 1]
         IN  PackParent(level, processed + 1, Append(tree, current_child_node), grown,
                        current_child_node_index + 1)
    ELSE PackParent(level, processed, tree, parent_node, current_child_node_index + 1)

\* Lines 432-459: one pass of the outer loop, building the next level.
RECURSIVE PackLevel(_, _, _, _)
PackLevel(level, processed, tree, next_level) ==
    IF ~(processed < Len(level))
    THEN [level |-> next_level, tree |-> tree]
    ELSE LET r == PackParent(level, processed, tree, NewTreeNode, 0)
         IN  PackLevel(level, r.processed, r.tree, Append(next_level, r.parent))

\* Lines 429-461: pack levels until one node is left.
RECURSIVE PackLevels(_, _)
PackLevels(level, tree) ==
    IF ~(1 < Len(level)) THEN [level |-> level, tree |-> tree]
    ELSE LET r == PackLevel(level, 0, tree, <<>>)
         IN  PackLevels(r.level, r.tree)

\* The array left in build order.
NotReversed(s) == s

\* std::reverse, line 467.
Reverse(s) == [i \in 1..Len(s) |-> s[Len(s) + 1 - i]]

\* The renumbering without the - 1.
RenumberedIdOffByOne(search_tree_size, old_id) == search_tree_size - old_id

\* Line 479.  Every stored child id is below search_tree_size, so the
\* uint32_t subtraction does not wrap.
RenumberedId(search_tree_size, old_id) == search_tree_size - old_id - 1

\* The renumbering applied to the page index of a node on disk as well.
RenumberNodeAndPageIndex(node, search_tree_size) ==
    [node EXCEPT !.children =
        [j \in 1..BRANCHING_FACTOR |->
            IF j - 1 < node.child_count \/ (node.child_is_on_disk /\ j = 1)
            THEN search_tree_size - node.children[j] - 1
            ELSE node.children[j]]]

\* Lines 475-481: the children of one node, renumbered.
RenumberNode(node, search_tree_size) ==
    [node EXCEPT !.children =
        [j \in 1..BRANCHING_FACTOR |->
            IF j - 1 < node.child_count
            THEN RenumberedId(search_tree_size, node.children[j])
            ELSE node.children[j]]]

\* Lines 464-483: store the root, reverse the array, renumber the children.
ReverseAndRenumber(level, tree) ==
    LET stored   == Append(tree, level[1])
        reversed == Reverse(stored)
    IN  [i \in 1..Len(reversed) |-> RenumberNode(reversed[i], Len(reversed))]

(***************************************************************************)
(* State                                                                   *)
(***************************************************************************)
VARIABLES
    \* the build constructor
    input_data_vector,      \* the segments handed to the build
    pc,                     \* position of the constructor
    input_wrapper_vector,   \* (hilbert value, index) pairs
    m_element_count,
    leaf_file,              \* [element_count, pages], or NoFile
    tree_nodes_in_level,
    m_search_tree,
    tree_file,              \* [size_of_tree, nodes], or NoFile
    \* one query on the loaded index
    query,                  \* which query runs, and whether it has returned
    input_coordinate,
    zoom_level,
    number_of_results,
    max_checked_segments,
    traversal_queue,
    min_dist,
    min_max_dist,
    result,                 \* result_coordinate / result_phantom_node / the result vector
    min_found_distances,
    inspected_segments,
    number_of_results_found_in_big_cc,
    number_of_results_found_in_tiny_cc,
    nearest_edge,
    ret,                    \* the value the query returned
    \* the leaf stream shared by the threads that query one instance
    leaves_stream,          \* the stream's read position, as a page index, and its state
    thread,                 \* per thread: position in LoadLeafFromDisk, leaf_id, page read
    \* XORFastHashStorage
    positions,              \* the cells of the table
    fast_hasher,            \* the hash function object: node -> probe position
    current_timestamp,
    lookup,                 \* the running operator[] call: its node and position
    held,                   \* history: the cell each node was given since the last Clear
    assigned                \* history: the key last assigned to each node since then

buildVars == << input_data_vector, pc, input_wrapper_vector, m_element_count, leaf_file,
                tree_nodes_in_level, m_search_tree, tree_file >>

queryVars == << query, input_coordinate, zoom_level, number_of_results,
                max_checked_segments, traversal_queue, min_dist, min_max_dist, result,
                min_found_distances, inspected_segments,
                number_of_results_found_in_big_cc, number_of_results_found_in_tiny_cc,
                nearest_edge, ret >>

streamVars == << leaves_stream, thread >>

hashVars == << positions, fast_hasher, current_timestamp, lookup, held, assigned >>

vars == << buildVars, queryVars, streamVars, hashVars >>

NoFile == [exists |-> FALSE]

NoQuery == "none"

\* std::priority_queue, default constructed
EmptyQueue == EmptyBag

QueryIdle ==
    /\ query = NoQuery
    /\ input_coordinate = Coord(0, 0)
    /\ zoom_level = 0
    /\ number_of_results = 0
    /\ max_checked_segments = 0
    /\ traversal_queue = EmptyQueue
    /\ min_dist = FLT_MAX
    /\ min_max_dist = FLT_MAX
    /\ result = <<>>
    /\ min_found_distances = <<>>
    /\ inspected_segments = 0
    /\ number_of_results_found_in_big_cc = 0
    /\ number_of_results_found_in_tiny_cc = 0
    /\ nearest_edge = NoEdge
    /\ ret = FALSE

\* The threads that query one instance.
Threads == { "t1", "t2" }

\* LeafNode(): object_count(0).  Only the used slots of objects are kept.
LeafNode == [object_count |-> 0, objects |-> <<>>]

\* A thread outside LoadLeafFromDisk.
IdleThread == [pc |-> "idle", leaf_id |-> 0, result_node |-> LeafNode]

\* The stream after the header was read: good, before the first page.
OpenedStream == [pos |-> 0, good |-> TRUE]

StreamIdle ==
    /\ leaves_stream = OpenedStream
    /\ thread = [t \in Threads |-> IdleThread]

\* No hash storage has been constructed.
IdleLookup == [pc |-> "idle"]

HashIdle ==
    /\ positions = <<>>
    /\ fast_hasher = <<>>
    /\ current_timestamp = 0
    /\ lookup = IdleLookup
    /\ held = <<>>
    /\ assigned = <<>>

(***************************************************************************)
(* The build constructor, lines 341-498, in its phases.                    *)
(***************************************************************************)
InitWith(inputs) ==
    /\ input_data_vector \in inputs
    /\ pc = "start"
    /\ input_wrapper_vector = <<>>
    /\ m_element_count = Len(input_data_vector)
    /\ leaf_file = NoFile
    /\ tree_nodes_in_level = <<>>
    /\ m_search_tree = <<>>
    /\ tree_file = NoFile
    /\ QueryIdle
    /\ StreamIdle
    /\ HashIdle

\* Builds from every sequence of up to MaxN segments of the build pool.
InitBuild == InitWith(SeqsUpTo(BuildPool, MaxN))

\* The sequences handed over in descending order of Hilbert value, one for
\* each multiset of segments (segments of equal value by descending node
\* id): the sort has to reverse them and arranges equal values every way.
DescendingInputs ==
    { input \in SeqsUpTo(EdgePool, MaxN) :
        \A i \in 1..(Len(input) - 1) :
            LET a == WrappedInputElement(input, i - 1)
                b == WrappedInputElement(input, i)
            IN  /\ ~WrappedLess(a, b)
                /\ ~WrappedLess(b, a) =>
                      input[i].forward_edge_based_node_id >= input[i + 1].forward_edge_based_node_id }

InitQueries == InitWith(DescendingInputs)

\* Lines 352-388: hilbert values, the header of the leaf file, the sort.
SortHilbertValues ==
    /\ pc = "start"
    /\ input_wrapper_vector' \in ParallelSort(HilbertWrappers(input_data_vector))
    /\ leaf_file' = [exists |-> TRUE, element_count |-> m_element_count, pages |-> <<>>]
    /\ pc' = "pack_leaves"
    /\ UNCHANGED << hashVars, input_data_vector, m_element_count, tree_nodes_in_level, m_search_tree,
                    tree_file, queryVars, streamVars >>

\* Lines 391-427: pack the sorted objects into pages, one tree node per page.
PackLeafPages ==
    /\ pc = "pack_leaves"
    /\ LET r == PackLeaves(input_data_vector, input_wrapper_vector, 0, <<>>, <<>>)
       IN  /\ leaf_file' = [leaf_file EXCEPT !.pages = r.pages]
           /\ tree_nodes_in_level' = r.level
    /\ input_wrapper_vector' = <<>>
    /\ pc' = "pack_levels"
    /\ UNCHANGED << hashVars, input_data_vector, m_element_count, m_search_tree, tree_file,
                    queryVars, streamVars >>

\* Lines 430-461: one pass of the level loop.
PackNextLevel ==
    /\ pc = "pack_levels"
    /\ 1 < Len(tree_nodes_in_level)
    /\ LET r == PackLevel(tree_nodes_in_level, 0, m_search_tree, <<>>)
       IN  /\ tree_nodes_in_level' = r.level
           /\ m_search_tree' = r.tree
    /\ UNCHANGED << hashVars, input_data_vector, pc, input_wrapper_vector, m_element_count, leaf_file,
                    tree_file, queryVars, streamVars >>

\* Lines 462-483: store the root, reverse, renumber.  Line 464 reads
\* tree_nodes_in_level[0]: here the level holds a node.
StoreRootAndRenumber ==
    /\ pc = "pack_levels"
    /\ ~(1 < Len(tree_nodes_in_level))
    /\ tree_nodes_in_level # <<>>
    /\ m_search_tree' = ReverseAndRenumber(tree_nodes_in_level, m_search_tree)
    /\ tree_nodes_in_level' = <<>>
    /\ pc' = "persist"
    /\ UNCHANGED << hashVars, input_data_vector, input_wrapper_vector, m_element_count, leaf_file,
                    tree_file, queryVars, streamVars >>

\* Lines 485-493: write the tree file.
PersistTree ==
    /\ pc = "persist"
    /\ tree_file' = [exists |-> TRUE, size_of_tree |-> Len(m_search_tree),
                     nodes |-> m_search_tree]
    /\ pc' = "done"
    /\ UNCHANGED << hashVars, input_data_vector, input_wrapper_vector, m_element_count, leaf_file,
                    tree_nodes_in_level, m_search_tree, queryVars, streamVars >>

NextBuild ==
    \/ SortHilbertValues
    \/ PackLeafPages
    \/ PackNextLevel
    \/ StoreRootAndRenumber
    \/ PersistTree

SpecBuild == InitBuild /\ [][NextBuild]_vars

(***************************************************************************)
(* Properties of the built tree                                            *)
(***************************************************************************)
TreeSize == Len(m_search_tree)

Node(i) == m_search_tree[i + 1]

PageCount == Len(leaf_file.pages)

BuildDone == pc = "done"

\* The nodes made for the leaf pages are the first PageCount nodes stored,
\* hence the last PageCount nodes of the reversed array.
IsLeafReferencing(i) == i >= TreeSize - PageCount

ChildIds(i) == { Child(Node(i), j) : j \in 0..(Node(i).child_count - 1) }

ChildrenInRange(i) == \A c \in ChildIds(i) : c >= 0 /\ c < TreeSize

RECURSIVE UnionOfRectangles(_, _)
UnionOfRectangles(r, rects) ==
    IF rects = {} THEN r
    ELSE LET x == CHOOSE y \in rects : TRUE
         IN  UnionOfRectangles(
                 [min_lon |-> IMin(r.min_lon, x.min_lon), max_lon |-> IMax(r.max_lon, x.max_lon),
                  min_lat |-> IMin(r.min_lat, x.min_lat), max_lat |-> IMax(r.max_lat, x.max_lat)],
                 rects \ {x})

InsideInclusive(r, c) ==
    /\ r.min_lat <= c.lat /\ c.lat <= r.max_lat
    /\ r.min_lon <= c.lon /\ c.lon <= r.max_lon

\* C5: after a build from N >= 1 segments the rectangle of node 0 contains,
\* inclusive on all four sides, both endpoints of every input segment.
C5_RootContainsEveryEndpoint ==
    BuildDone =>
        \A i \in 1..Len(input_data_vector) :
            /\ InsideInclusive(Node(0).minimum_bounding_rectangle, CoordAt(input_data_vector[i].u))
            /\ InsideInclusive(Node(0).minimum_bounding_rectangle, CoordAt(input_data_vector[i].v))

\* A finished build of a tree with several levels whose segments lie apart.
C5_Witness ==
    /\ BuildDone
    /\ ~Node(0).child_is_on_disk
    /\ \E i, j \in 1..Len(input_data_vector) :
           CoordAt(input_data_vector[i].v) # CoordAt(input_data_vector[j].u)

\* C6: in the final array the rectangle of every node that is not on disk is
\* the componentwise min/max union of the rectangles of its renumbered children.
C6_InternalMBRIsUnionOfChildren ==
    BuildDone =>
        \A i \in 0..(TreeSize - 1) :
            ~Node(i).child_is_on_disk =>
                /\ ChildrenInRange(i)
                /\ Node(i).minimum_bounding_rectangle =
                       UnionOfRectangles(EmptyRectangle,
                           { Node(c).minimum_bounding_rectangle : c \in ChildIds(i) })

\* A finished tree with two levels above the leaf-referencing nodes, whose
\* children have different rectangles.
C6_Witness ==
    /\ BuildDone
    /\ \E i \in 1..(TreeSize - 1) :
           /\ ~Node(i).child_is_on_disk
           /\ Node(i).child_count = BRANCHING_FACTOR
           /\ \E c, d \in ChildIds(i) :
                  Node(c).minimum_bounding_rectangle # Node(d).minimum_bounding_rectangle

\* C7: node 0 is the root (every other node is a child of a node before it)
\* and the children of every node that is not leaf-referencing lie after the
\* node and inside the array.
C7_RootFirstTopologicalOrder ==
    BuildDone =>
        /\ \A i \in 1..(TreeSize - 1) :
               \E k \in 0..(i - 1) : ~IsLeafReferencing(k) /\ i \in ChildIds(k)
        /\ \A i \in 0..(TreeSize - 1) :
               ~IsLeafReferencing(i) => \A c \in ChildIds(i) : c > i /\ c < TreeSize

\* A finished tree in which a child of the root has children of its own.
C7_Witness ==
    /\ BuildDone
    /\ \E i \in 1..(TreeSize - 1) : ~IsLeafReferencing(i) /\ Node(i).child_count > 0

RECURSIVE SumObjectCounts(_, _)
SumObjectCounts(pages, i) ==
    IF i > Len(pages) THEN 0 ELSE pages[i].object_count + SumObjectCounts(pages, i + 1)

CeilDiv(a, b) == (a + b - 1) \div b

LeafFileClosed == pc \in { "pack_levels", "persist", "done" }

\* C9: once the leaf file is closed its header stores N, it holds
\* ceil(N / LEAF_NODE_SIZE) pages, and their object counts sum to N.
C9_LeafFileHoldsEveryObject ==
    LeafFileClosed =>
        /\ leaf_file.exists
        /\ leaf_file.element_count = Len(input_data_vector)
        /\ PageCount = CeilDiv(Len(input_data_vector), LEAF_NODE_SIZE)
        /\ SumObjectCounts(leaf_file.pages, 1) = Len(input_data_vector)

\* A finished build whose last page is not full and is not the only page.
C9_Witness ==
    /\ BuildDone
    /\ PageCount > 1
    /\ leaf_file.pages[PageCount].object_count < LEAF_NODE_SIZE

(***************************************************************************)
(* Opening the index for queries: the read constructor, lines 501-543.     *)
(***************************************************************************)
\* An empty std::shared_ptr.
NullPointer == [null |-> TRUE]

\* A std::shared_ptr that holds an object.
SharedPointer(object) == [null |-> FALSE, object |-> object]

\* The member m_coordinate_list: the read constructor stores its argument
\* (line 507); the build constructor (initialisers at lines 345-346, body
\* 347-498) never assigns it, so its instance keeps the empty shared_ptr.
m_coordinate_list == IF pc = "open" THEN SharedPointer(coordinate_list) ELSE NullPointer

\* A file of size zero.
EmptyFile == [exists |-> TRUE, bytes |-> 0]

\* The file size test that drops nothing: a file passes when it exists.
FileExists(file) == file.exists

\* Lines 509-516 and 528-535: boost::filesystem::exists and file_size.
IndexFileUsable(file) == file.exists /\ file # EmptyFile

\* Lines 519-526: tree_size starts at 0 and is read from the file;
\* resize(tree_size) makes that many TreeNode(); the read fills as many of
\* them as the file holds.
ReadTree(file) ==
    IF file = EmptyFile
    THEN <<>>
    ELSE [i \in 1..file.size_of_tree |->
             IF i <= Len(file.nodes) THEN file.nodes[i] ELSE NewTreeNode]

\* Line 539: the header of the leaf file.  A read that fails stores
\* nothing and leaves m_element_count, which the constructor does not
\* initialise, with any value.
ElementCountsRead(file) ==
    IF file = EmptyFile THEN 0..MaxN ELSE { file.element_count }

OpenIndex ==
    /\ pc = "done"
    /\ IndexFileUsable(tree_file) /\ IndexFileUsable(leaf_file)
    /\ m_search_tree' = ReadTree(tree_file)
    /\ m_element_count' \in ElementCountsRead(leaf_file)
    /\ leaves_stream' = OpenedStream
    /\ pc' = "open"
    /\ UNCHANGED << hashVars, input_data_vector, input_wrapper_vector, leaf_file, tree_nodes_in_level,
                    tree_file, queryVars, thread >>

\* Lines 509-516 and 528-535: OSRMException thrown out of the constructor;
\* no instance comes into being.
OpenIndexFails ==
    /\ pc = "done"
    /\ ~(IndexFileUsable(tree_file) /\ IndexFileUsable(leaf_file))
    /\ m_search_tree' = <<>>
    /\ pc' = "open_failed"
    /\ UNCHANGED << hashVars, input_data_vector, input_wrapper_vector, m_element_count, leaf_file,
                    tree_nodes_in_level, tree_file, queryVars, streamVars >>

\* LoadLeafFromDisk, lines 1176-1193, run by one thread without
\* interruption: seek to the page, read it.
LoadLeafFromDisk(leaf_id) == leaf_file.pages[leaf_id + 1]

StreamAfterLoad(leaf_id) == [pos |-> leaf_id + 1, good |-> TRUE]

(***************************************************************************)
(* LoadLeafFromDisk, lines 1176-1193, run by several threads on the one    *)
(* leaves_stream of the instance (line 334): the state check, the seek and *)
(* the read are separate calls on the stream, and nothing makes a thread   *)
(* wait for another between them.  BOOST_ASSERT_MSG is compiled out of a   *)
(* release build.                                                          *)
(***************************************************************************)
\* The leaf ids the tree refers to: children[0] of the nodes on disk.
LeafIds == { Child(m_search_tree[i], 0) : i \in { n \in 1..Len(m_search_tree) :
                                                    m_search_tree[n].child_is_on_disk } }

\* Lines 1176-1186: a query calls LoadLeafFromDisk with a default-constructed
\* result_node; a stream that is not good is reset.
StreamBeginLoad(t) ==
    /\ pc = "open"
    /\ thread[t].pc = "idle"
    /\ \E leaf_id \in LeafIds :
         thread' = [thread EXCEPT ![t] = [pc |-> "seek", leaf_id |-> leaf_id,
                                          result_node |-> LeafNode]]
    /\ leaves_stream' = [leaves_stream EXCEPT !.good = TRUE]
    /\ UNCHANGED << hashVars, buildVars, queryVars >>

\* Lines 1187-1188: seekg does nothing on a stream that has failed.
StreamSeek(t) ==
    /\ thread[t].pc = "seek"
    /\ leaves_stream' = IF leaves_stream.good
                        THEN [leaves_stream EXCEPT !.pos = thread[t].leaf_id]
                        ELSE leaves_stream
    /\ thread' = [thread EXCEPT ![t].pc = "read"]
    /\ UNCHANGED << hashVars, buildVars, queryVars >>

\* Line 1191: read the page at the position of the stream; at the end of
\* the file, or on a failed stream, the read fails and stores nothing.
StreamRead(t) ==
    /\ thread[t].pc = "read"
    /\ IF leaves_stream.good /\ leaves_stream.pos < PageCount
       THEN /\ thread' = [thread EXCEPT ![t].pc = "loaded",
                              ![t].result_node = leaf_file.pages[leaves_stream.pos + 1]]
            /\ leaves_stream' = [leaves_stream EXCEPT !.pos = leaves_stream.pos + 1]
       ELSE /\ thread' = [thread EXCEPT ![t].pc = "loaded"]
            /\ leaves_stream' = [leaves_stream EXCEPT !.good = FALSE]
    /\ UNCHANGED << hashVars, buildVars, queryVars >>

\* The query goes on with the page it was given.
StreamReturn(t) ==
    /\ thread[t].pc = "loaded"
    /\ thread' = [thread EXCEPT ![t] = IdleThread]
    /\ UNCHANGED << hashVars, buildVars, queryVars, leaves_stream >>

NextStream ==
    \E t \in Threads :
        \/ StreamBeginLoad(t)
        \/ StreamSeek(t)
        \/ StreamRead(t)
        \/ StreamReturn(t)

\* The indexes the threads share: built from the segments of the build pool.
InitStream == InitWith(DescendingInputs \cap SeqsUpTo(BuildPool, MaxN))

SpecStream == InitStream /\ [][NextBuild \/ OpenIndex \/ NextStream]_vars

\* C4: every leaf load for page index i delivers the content of page i,
\* whatever the other threads do on the leaf stream meanwhile.
C4_LoadDeliversRequestedPage ==
    \A t \in Threads :
        thread[t].pc = "loaded" => thread[t].result_node = leaf_file.pages[thread[t].leaf_id + 1]

(***************************************************************************)
(* The priority queue: a bag of entries, since the layout of the heap is   *)
(* not observable.  top() is an entry that no other entry precedes; which  *)
(* of several entries with equal min_dist it is, is not fixed.             *)
(***************************************************************************)
QueryCandidate(dist, n_id) == [min_dist |-> dist, node_id |-> n_id]

\* The comparison without the reversal: top() is then the farthest entry.
CandidateLessNotReversed(a, b) == FLess(a.min_dist, b.min_dist)

\* QueryCandidate::operator< and IncrementalQueryCandidate::operator<
\* ("reversed order"): a is below b when b's distance is smaller.
CandidateLess(a, b) == FLess(b.min_dist, a.min_dist)

Push(queue, entry) == queue (+) SetToBag({entry})

\* std::priority_queue::top
Top(queue) ==
    { e \in BagToSet(queue) : \A o \in BagToSet(queue) : ~CandidateLess(e, o) }

\* std::priority_queue::pop, of the entry top() gave
Pop(queue, entry) == queue (-) SetToBag({entry})

\* ExploreTreeNode, lines 1146-1174.
RECURSIVE ExploreTreeNode(_, _, _, _, _, _)
ExploreTreeNode(parent, location, cur_min_dist, new_min_max_dist, queue, i) ==
    IF ~(i < parent.child_count)
    THEN [min_max_dist |-> new_min_max_dist, queue |-> queue]
    ELSE LET child_id == Child(parent, i)
             child_rectangle == m_search_tree[child_id + 1].minimum_bounding_rectangle
             lower_bound_to_element == GetMinDist(child_rectangle, location)
             upper_bound_to_element == GetMinMaxDist(child_rectangle, location)
             bound == FMin(new_min_max_dist, upper_bound_to_element)
         IN  IF FLess(bound, lower_bound_to_element) \/ FLess(cur_min_dist, lower_bound_to_element)
             THEN ExploreTreeNode(parent, location, cur_min_dist, bound, queue, i + 1)
             ELSE ExploreTreeNode(parent, location, cur_min_dist, bound,
                      Push(queue, QueryCandidate(lower_bound_to_element, child_id)), i + 1)

TinyComponentsIgnored(zoom) == zoom <= 14

ZoomLevels == { 14, 15 }

(***************************************************************************)
(* LocateClosestEndPointForCoordinate, lines 570-644.                      *)
(***************************************************************************)
\* Lines 597-631: the scan of one leaf page.
RECURSIVE ScanLeafForEndPoint(_, _, _, _, _, _)
ScanLeafForEndPoint(leaf, i, location, ignore_tiny_components, cur_min_dist, cur_result) ==
    IF ~(i < leaf.object_count)
    THEN [min_dist |-> cur_min_dist, result |-> cur_result]
    ELSE LET current_edge == leaf.objects[i + 1]
         IN  IF ignore_tiny_components /\ current_edge.is_in_tiny_cc
             THEN ScanLeafForEndPoint(leaf, i + 1, location, ignore_tiny_components,
                                      cur_min_dist, cur_result)
             ELSE LET du == ApproximateEuclideanDistance(location, CoordAt(current_edge.u))
                      m1 == IF FLess(du, cur_min_dist) THEN du ELSE cur_min_dist
                      r1 == IF FLess(du, cur_min_dist) THEN CoordAt(current_edge.u) ELSE cur_result
                      dv == ApproximateEuclideanDistance(location, CoordAt(current_edge.v))
                      m2 == IF FLess(dv, m1) THEN dv ELSE m1
                      r2 == IF FLess(dv, m1) THEN CoordAt(current_edge.v) ELSE r1
                  IN  ScanLeafForEndPoint(leaf, i + 1, location, ignore_tiny_components, m2, r2)

\* Lines 588-590: the pruning test of the closest-endpoint query.
LocatePruned(candidate, cur_min_dist, cur_min_max_dist) ==
    LET prune_downward == FLeq(cur_min_max_dist, candidate.min_dist)
        prune_upward   == FLeq(cur_min_dist, candidate.min_dist)
    IN  prune_downward \/ prune_upward

\* The values result_coordinate holds when the caller hands it over: a
\* default-constructed coordinate, or one set by an earlier use.
CallerCoordinates == { InvalidCoordinate, Coord(1, 1) }

\* Lines 570-580: the call; result_coordinate is the caller's and is not reset.
LocateBegin ==
    /\ query = NoQuery
    /\ query' = "locate"
    /\ input_coordinate' \in QueryPoints
    /\ zoom_level' \in ZoomLevels
    /\ result' \in CallerCoordinates
    /\ min_dist' = FLT_MAX
    /\ min_max_dist' = FLT_MAX
    /\ traversal_queue' = Push(EmptyQueue, QueryCandidate(Zero, 0))
    /\ UNCHANGED << hashVars, buildVars, streamVars, number_of_results, max_checked_segments,
                    min_found_distances, inspected_segments,
                    number_of_results_found_in_big_cc, number_of_results_found_in_tiny_cc,
                    nearest_edge, ret >>

\* The query on an instance made by the read constructor.
LocateStart == pc = "open" /\ LocateBegin

\* The query on the instance the build constructor made.
LocateOnBuiltInstance == pc = "done" /\ LocateBegin

\* Lines 583-642: one pass of the loop.  The leaf scan reads the end
\* points through m_coordinate_list (lines 604-605).
LocateStep ==
    /\ query = "locate"
    /\ traversal_queue # EmptyQueue
    /\ \E current_query_node \in Top(traversal_queue) :
         LET popped == Pop(traversal_queue, current_query_node)
             current_tree_node == m_search_tree[current_query_node.node_id + 1]
         IN  IF LocatePruned(current_query_node, min_dist, min_max_dist)
             THEN /\ traversal_queue' = popped
                  /\ UNCHANGED << min_dist, min_max_dist, result, leaves_stream >>
             ELSE IF current_tree_node.child_is_on_disk
             THEN LET r == ScanLeafForEndPoint(LoadLeafFromDisk(Child(current_tree_node, 0)), 0,
                               input_coordinate, TinyComponentsIgnored(zoom_level),
                               min_dist, result)
                  IN  /\ m_coordinate_list # NullPointer
                      /\ min_dist' = r.min_dist
                      /\ result' = r.result
                      /\ leaves_stream' = StreamAfterLoad(Child(current_tree_node, 0))
                      /\ traversal_queue' = popped
                      /\ UNCHANGED min_max_dist
             ELSE LET r == ExploreTreeNode(current_tree_node, input_coordinate, min_dist,
                                           min_max_dist, popped, 0)
                  IN  /\ min_max_dist' = r.min_max_dist
                      /\ traversal_queue' = r.queue
                      /\ UNCHANGED << min_dist, result, leaves_stream >>
    /\ UNCHANGED << hashVars, buildVars, thread, query, input_coordinate, zoom_level, number_of_results,
                    max_checked_segments, min_found_distances, inspected_segments,
                    number_of_results_found_in_big_cc, number_of_results_found_in_tiny_cc,
                    nearest_edge, ret >>

\* Line 643.
LocateReturn ==
    /\ query = "locate"
    /\ traversal_queue = EmptyQueue
    /\ ret' = IsValid(result)
    /\ query' = "locate_done"
    /\ UNCHANGED << hashVars, buildVars, streamVars, input_coordinate, zoom_level, number_of_results,
                    max_checked_segments, traversal_queue, min_dist, min_max_dist, result,
                    min_found_distances, inspected_segments,
                    number_of_results_found_in_big_cc, number_of_results_found_in_tiny_cc,
                    nearest_edge >>

NextLocate == LocateStart \/ LocateStep \/ LocateReturn

SpecLocate == InitQueries /\ [][NextBuild \/ OpenIndex \/ NextLocate]_vars

(***************************************************************************)
(* Result post-processing, lines 1113-1144.                                *)
(***************************************************************************)
\* PhantomNode built from a segment and a foot point (lines 1073-1084 and
\* 794-806); segment records the edge the payload was copied from.
PhantomNode(edge, location) ==
    [forward_node_id |-> edge.forward_edge_based_node_id,
     reverse_node_id |-> edge.reverse_edge_based_node_id,
     forward_weight  |-> edge.forward_weight,
     reverse_weight  |-> edge.reverse_weight,
     location        |-> location,
     segment         |-> edge]

\* PhantomNode(): nothing set, the location invalid.
DefaultPhantomNode == PhantomNode(NoEdge, InvalidCoordinate)

Abs(x) == IF x < 0 THEN -x ELSE x

\* A fix-up that moves the location one unit towards the input coordinate.
FixUpStepsTowards(location, phantom) ==
    LET Step(from, to) == IF from < to THEN from + 1 ELSE IF from > to THEN from - 1 ELSE from
    IN  [phantom EXCEPT !.location = Coord(Step(phantom.location.lat, location.lat),
                                           Step(phantom.location.lon, location.lon))]

\* Lines 1133-1144.  The coordinates of the model are far from the ends of
\* the int range, so the subtraction does not overflow.
FixUpRoundingIssue(location, phantom) ==
    LET lon == IF 1 = Abs(location.lon - phantom.location.lon)
               THEN location.lon ELSE phantom.location.lon
        lat == IF 1 = Abs(location.lat - phantom.location.lat)
               THEN location.lat ELSE phantom.location.lat
    IN  [phantom EXCEPT !.location = Coord(lat, lon)]

\* int(w * sqrt(a / b)) for squared distances a <= b, b > 0.
FloorScaled(w, a, b) == CHOOSE m \in 0..w : m * m * b <= w * w * a /\ (m + 1) * (m + 1) * b > w * w * a

\* int(w * (1 - sqrt(a / b))) for squared distances a <= b, b > 0.
FloorScaledComplement(w, a, b) ==
    w - (CHOOSE m \in 0..w : m * m * b >= w * w * a /\ (m = 0 \/ (m - 1) * (m - 1) * b < w * w * a))

\* The weights left as they were copied from the segment.
WeightsNotScaled(edge, phantom) == phantom

\* Lines 1113-1130.
SetForwardAndReverseWeightsOnPhantomNode(edge, phantom) ==
    LET distance_1 == ApproximateEuclideanDistance(CoordAt(edge.u), phantom.location).n
        distance_2 == ApproximateEuclideanDistance(CoordAt(edge.u), CoordAt(edge.v)).n
        \* ratio = std::min(1.f, distance_1 / distance_2); the quotient by a
        \* zero distance_2 is NaN or infinity, and the minimum is 1.
        ratio_is_one == distance_2 = 0 \/ distance_1 >= distance_2
        fwd == IF ratio_is_one THEN phantom.forward_weight
               ELSE FloorScaled(phantom.forward_weight, distance_1, distance_2)
        rev == IF ratio_is_one THEN 0
               ELSE FloorScaledComplement(phantom.reverse_weight, distance_1, distance_2)
    IN  [phantom EXCEPT
           !.forward_weight = IF SPECIAL_NODEID # phantom.forward_node_id THEN fwd ELSE @,
           !.reverse_weight = IF SPECIAL_NODEID # phantom.reverse_node_id THEN rev ELSE @]

(***************************************************************************)
(* FindPhantomNodeForCoordinate, lines 1022-1109.                          *)
(***************************************************************************)
\* Lines 1049-1087: the scan of one leaf page.
RECURSIVE ScanLeafForSegment(_, _, _, _, _, _, _)
ScanLeafForSegment(leaf, i, location, ignore_tiny_components, cur_min_dist, cur_phantom, cur_edge) ==
    IF ~(i < leaf.object_count)
    THEN [min_dist |-> cur_min_dist, result |-> cur_phantom, nearest_edge |-> cur_edge]
    ELSE LET current_edge == leaf.objects[i + 1]
             foot == ComputePerpendicularDistanceFoot(CoordAt(current_edge.u),
                                                      CoordAt(current_edge.v), location)
         IN  IF ignore_tiny_components /\ current_edge.is_in_tiny_cc
             THEN ScanLeafForSegment(leaf, i + 1, location, ignore_tiny_components,
                                     cur_min_dist, cur_phantom, cur_edge)
             ELSE IF FLess(foot.dist, cur_min_dist) /\ ~epsilon_compare(foot.dist, cur_min_dist)
             THEN ScanLeafForSegment(leaf, i + 1, location, ignore_tiny_components,
                                     foot.dist, PhantomNode(current_edge, foot.nearest),
                                     current_edge)
             ELSE ScanLeafForSegment(leaf, i + 1, location, ignore_tiny_components,
                                     cur_min_dist, cur_phantom, cur_edge)

\* Lines 1040-1042: the pruning test of the nearest-segment query.
FindPruned(candidate, cur_min_dist, cur_min_max_dist) ==
    LET prune_downward == FLess(cur_min_max_dist, candidate.min_dist)
        prune_upward   == FLess(cur_min_dist, candidate.min_dist)
    IN  prune_downward \/ prune_upward

\* Lines 1026-1033: the call, with a default-constructed phantom node.
FindStart ==
    /\ pc = "open" /\ query = NoQuery
    /\ query' = "find"
    /\ input_coordinate' \in QueryPoints
    /\ zoom_level' \in ZoomLevels
    /\ result' = DefaultPhantomNode
    /\ nearest_edge' = NoEdge
    /\ min_dist' = FLT_MAX
    /\ min_max_dist' = FLT_MAX
    /\ traversal_queue' = Push(EmptyQueue, QueryCandidate(Zero, 0))
    /\ UNCHANGED << hashVars, buildVars, streamVars, number_of_results, max_checked_segments,
                    min_found_distances, inspected_segments,
                    number_of_results_found_in_big_cc, number_of_results_found_in_tiny_cc,
                    ret >>

\* Lines 1035-1098: one pass of the loop.
FindStep ==
    /\ query = "find"
    /\ traversal_queue # EmptyQueue
    /\ \E current_query_node \in Top(traversal_queue) :
         LET popped == Pop(traversal_queue, current_query_node)
             current_tree_node == m_search_tree[current_query_node.node_id + 1]
         IN  IF FindPruned(current_query_node, min_dist, min_max_dist)
             THEN /\ traversal_queue' = popped
                  /\ UNCHANGED << min_dist, min_max_dist, result, nearest_edge, leaves_stream >>
             ELSE IF current_tree_node.child_is_on_disk
             THEN LET r == ScanLeafForSegment(LoadLeafFromDisk(Child(current_tree_node, 0)), 0,
                               input_coordinate, TinyComponentsIgnored(zoom_level),
                               min_dist, result, nearest_edge)
                  IN  /\ min_dist' = r.min_dist
                      /\ result' = r.result
                      /\ nearest_edge' = r.nearest_edge
                      /\ leaves_stream' = StreamAfterLoad(Child(current_tree_node, 0))
                      /\ traversal_queue' = popped
                      /\ UNCHANGED min_max_dist
             ELSE LET r == ExploreTreeNode(current_tree_node, input_coordinate, min_dist,
                                           min_max_dist, popped, 0)
                  IN  /\ min_max_dist' = r.min_max_dist
                      /\ traversal_queue' = r.queue
                      /\ UNCHANGED << min_dist, result, nearest_edge, leaves_stream >>
    /\ UNCHANGED << hashVars, buildVars, thread, query, input_coordinate, zoom_level, number_of_results,
                    max_checked_segments, min_found_distances, inspected_segments,
                    number_of_results_found_in_big_cc, number_of_results_found_in_tiny_cc,
                    ret >>

\* Lines 1100-1108: post-processing and return.
FindReturn ==
    /\ query = "find"
    /\ traversal_queue = EmptyQueue
    /\ result' = IF IsValid(result.location)
                 THEN SetForwardAndReverseWeightsOnPhantomNode(nearest_edge,
                          FixUpRoundingIssue(input_coordinate, result))
                 ELSE result
    /\ ret' = IsValid(result'.location)
    /\ query' = "find_done"
    /\ UNCHANGED << hashVars, buildVars, streamVars, input_coordinate, zoom_level, number_of_results,
                    max_checked_segments, traversal_queue, min_dist, min_max_dist,
                    min_found_distances, inspected_segments,
                    number_of_results_found_in_big_cc, number_of_results_found_in_tiny_cc,
                    nearest_edge >>

NextFind == FindStart \/ FindStep \/ FindReturn

SpecFind == InitQueries /\ [][NextBuild \/ OpenIndex \/ NextFind]_vars

(***************************************************************************)
(* IncrementalFindPhantomNodeForCoordinate, lines 647-858.  The queue      *)
(* holds tree nodes and segments, by value.                                *)
(***************************************************************************)
IncrementalQueryCandidate(dist, is_tree_node, node) ==
    [min_dist |-> dist, is_tree_node |-> is_tree_node, node |-> node]

\* The objects of a leaf page pushed with the score 0, a lower bound of
\* their distance instead of the distance.
RECURSIVE EnqueueLeafObjectsAtZero(_, _, _, _, _)
EnqueueLeafObjectsAtZero(leaf, i, location, current_min_dist, queue) ==
    IF ~(i < leaf.object_count) THEN queue
    ELSE EnqueueLeafObjectsAtZero(leaf, i + 1, location, current_min_dist,
             Push(queue, IncrementalQueryCandidate(Zero, FALSE, leaf.objects[i + 1])))

\* Lines 703-722: the objects of a leaf page go into the queue.
RECURSIVE EnqueueLeafObjects(_, _, _, _, _)
EnqueueLeafObjects(leaf, i, location, current_min_dist, queue) ==
    IF ~(i < leaf.object_count) THEN queue
    ELSE LET current_edge == leaf.objects[i + 1]
             current_perpendicular_distance == EdgePerpDist(current_edge, location)
         IN  IF FLess(current_perpendicular_distance, current_min_dist)
             THEN EnqueueLeafObjects(leaf, i + 1, location, current_min_dist,
                      Push(queue, IncrementalQueryCandidate(current_perpendicular_distance,
                                                            FALSE, current_edge)))
             ELSE EnqueueLeafObjects(leaf, i + 1, location, current_min_dist, queue)

\* Lines 736-755: the children of an inner node go into the queue.
RECURSIVE EnqueueChildren(_, _, _, _, _)
EnqueueChildren(parent, i, location, current_min_dist, queue) ==
    IF ~(i < parent.child_count) THEN queue
    ELSE LET child_tree_node == m_search_tree[Child(parent, i) + 1]
             lower_bound_to_element ==
                 GetMinDist(child_tree_node.minimum_bounding_rectangle, location)
         IN  IF FLess(lower_bound_to_element, current_min_dist)
             THEN EnqueueChildren(parent, i + 1, location, current_min_dist,
                      Push(queue, IncrementalQueryCandidate(lower_bound_to_element,
                                                            TRUE, child_tree_node)))
             ELSE EnqueueChildren(parent, i + 1, location, current_min_dist, queue)

\* Line 831: the test that empties the queue.
FlushQueue(found_big, inspected) ==
    number_of_results = found_big \/ inspected >= max_checked_segments

\* The skip test without the limit on tiny-component results.
SegmentSkippedBigOnly(current_segment, found_big, found_tiny) ==
    found_big = number_of_results /\ ~current_segment.is_in_tiny_cc

\* Lines 765-775: a class that already gave number_of_results results gives
\* no more.
SegmentSkipped(current_segment, found_big, found_tiny) ==
    \/ (found_big = number_of_results /\ ~current_segment.is_in_tiny_cc)
    \/ (found_tiny = number_of_results /\ current_segment.is_in_tiny_cc)

\* Lines 790-791: a popped segment is taken as a result.
SegmentAccepted(current_perpendicular_distance, current_min_dist) ==
    /\ FLess(current_perpendicular_distance, current_min_dist)
    /\ ~epsilon_compare(current_perpendicular_distance, current_min_dist)

\* The values max_checked_segments takes: a small fuse and the default.
FuseChoices == { 2, 4 * LEAF_NODE_SIZE }

\* Lines 656-671.  zoom_level is a parameter the query does not read.
IncrementalBegin(results) ==
    /\ pc = "open" /\ query = NoQuery
    /\ query' = "incremental"
    /\ input_coordinate' \in QueryPoints
    /\ zoom_level' = 14
    /\ number_of_results' \in results
    /\ max_checked_segments' \in FuseChoices
    /\ min_found_distances' = [i \in 1..number_of_results' |-> FLT_MAX]
    /\ inspected_segments' = 0
    /\ number_of_results_found_in_big_cc' = 0
    /\ number_of_results_found_in_tiny_cc' = 0
    /\ result' = <<>>
    /\ traversal_queue' = Push(EmptyQueue, IncrementalQueryCandidate(Zero, TRUE, m_search_tree[1]))
    /\ UNCHANGED << hashVars, buildVars, streamVars, min_dist, min_max_dist, nearest_edge, ret >>

\* The query called for at least one result.
IncrementalStart == IncrementalBegin(1..MaxK)

\* The query called for any number of results, none included.
IncrementalStartAny == IncrementalBegin(0..MaxK)

\* Lines 673-837: one pass of the loop, with the threshold that line 680
\* read from min_found_distances.
IncrementalPass(current_min_dist) ==
    /\ query = "incremental"
    /\ traversal_queue # EmptyQueue
    /\ \E current_query_node \in Top(traversal_queue) :
         LET popped == Pop(traversal_queue, current_query_node)
         IN  IF FLess(current_min_dist, current_query_node.min_dist)
             THEN \* pruned, line 682
                  /\ traversal_queue' = popped
                  /\ UNCHANGED << result, min_found_distances, inspected_segments, leaves_stream,
                                  number_of_results_found_in_big_cc,
                                  number_of_results_found_in_tiny_cc >>
             ELSE IF current_query_node.is_tree_node
             THEN LET current_tree_node == current_query_node.node
                      filled ==
                          IF current_tree_node.child_is_on_disk
                          THEN EnqueueLeafObjects(LoadLeafFromDisk(Child(current_tree_node, 0)),
                                   0, input_coordinate, current_min_dist, popped)
                          ELSE EnqueueChildren(current_tree_node, 0, input_coordinate,
                                   current_min_dist, popped)
                  IN  /\ traversal_queue' =
                             IF FlushQueue(number_of_results_found_in_big_cc, inspected_segments)
                             THEN EmptyQueue ELSE filled
                      /\ leaves_stream' = IF current_tree_node.child_is_on_disk
                                       THEN StreamAfterLoad(Child(current_tree_node, 0))
                                       ELSE leaves_stream
                      /\ UNCHANGED << result, min_found_distances, inspected_segments,
                                      number_of_results_found_in_big_cc,
                                      number_of_results_found_in_tiny_cc >>
             ELSE LET current_segment == current_query_node.node
                      foot == ComputePerpendicularDistanceFoot(CoordAt(current_segment.u),
                                  CoordAt(current_segment.v), input_coordinate)
                      skipped == SegmentSkipped(current_segment,
                                     number_of_results_found_in_big_cc,
                                     number_of_results_found_in_tiny_cc)
                      accepted == ~skipped /\ SegmentAccepted(foot.dist, current_min_dist)
                      found_big == IF accepted /\ ~current_segment.is_in_tiny_cc
                                   THEN number_of_results_found_in_big_cc + 1
                                   ELSE number_of_results_found_in_big_cc
                  IN  /\ inspected_segments' = inspected_segments + 1
                      /\ result' =
                             IF accepted
                             THEN Append(result,
                                      SetForwardAndReverseWeightsOnPhantomNode(current_segment,
                                          FixUpRoundingIssue(input_coordinate,
                                              PhantomNode(current_segment, foot.nearest))))
                             ELSE result
                      /\ number_of_results_found_in_tiny_cc' =
                             IF accepted /\ current_segment.is_in_tiny_cc
                             THEN number_of_results_found_in_tiny_cc + 1
                             ELSE number_of_results_found_in_tiny_cc
                      /\ number_of_results_found_in_big_cc' = found_big
                      /\ min_found_distances' =
                             IF accepted /\ ~current_segment.is_in_tiny_cc
                             THEN [min_found_distances EXCEPT
                                      ![number_of_results_found_in_big_cc + 1] = foot.dist]
                             ELSE min_found_distances
                      \* the two "continue" statements of lines 766-775 skip line 831
                      /\ traversal_queue' =
                             IF ~skipped /\ FlushQueue(found_big, inspected_segments + 1)
                             THEN EmptyQueue ELSE popped
                      /\ UNCHANGED leaves_stream
    /\ UNCHANGED << hashVars, buildVars, thread, query, input_coordinate, zoom_level, number_of_results,
                    max_checked_segments, min_dist, min_max_dist, nearest_edge, ret >>

\* Line 680 with number_of_results >= 1: the threshold is the last element
\* of min_found_distances.
IncrementalStep ==
    /\ number_of_results >= 1
    /\ IncrementalPass(min_found_distances[(number_of_results - 1) + 1])

\* What a read outside of min_found_distances can deliver as a float.
IndeterminateDistances == { Zero, Frac(1, 1), FLT_MAX }

\* Line 680 with number_of_results = 0: min_found_distances is empty and
\* the unsigned index number_of_results - 1 is the largest unsigned value.
\* The read ends the process or delivers some float.
IncrementalStepOutOfRange ==
    /\ number_of_results = 0
    /\ \/ \E current_min_dist \in IndeterminateDistances : IncrementalPass(current_min_dist)
       \/ /\ query = "incremental"
          /\ traversal_queue # EmptyQueue
          /\ query' = "crashed"
          /\ UNCHANGED << hashVars, buildVars, streamVars, input_coordinate, zoom_level,
                          number_of_results, max_checked_segments, traversal_queue, min_dist,
                          min_max_dist, result, min_found_distances, inspected_segments,
                          number_of_results_found_in_big_cc,
                          number_of_results_found_in_tiny_cc, nearest_edge, ret >>

\* Line 857.
IncrementalReturn ==
    /\ query = "incremental"
    /\ traversal_queue = EmptyQueue
    /\ ret' = (result # <<>>)
    /\ query' = "incremental_done"
    /\ UNCHANGED << hashVars, buildVars, streamVars, input_coordinate, zoom_level, number_of_results,
                    max_checked_segments, traversal_queue, min_dist, min_max_dist, result,
                    min_found_distances, inspected_segments,
                    number_of_results_found_in_big_cc, number_of_results_found_in_tiny_cc,
                    nearest_edge >>

NextIncremental == IncrementalStart \/ IncrementalStep \/ IncrementalReturn

SpecIncremental == InitQueries /\ [][NextBuild \/ OpenIndex \/ NextIncremental]_vars

(***************************************************************************)
(* Properties of the closest-endpoint query                                *)
(***************************************************************************)
StoredSegments == UNION { Range(leaf_file.pages[q].objects) : q \in 1..PageCount }

Unfiltered(zoom) == { e \in StoredSegments : ~(zoom <= 14 /\ e.is_in_tiny_cc) }

EndPoints(edges) == { CoordAt(e.u) : e \in edges } \cup { CoordAt(e.v) : e \in edges }

\* C3: the closest-endpoint query sets the result to an endpoint of an
\* unfiltered segment at minimal distance from p among the endpoints of all
\* unfiltered stored segments.
C3_LocateReturnsNearestEndPoint ==
    (query = "locate_done" /\ Unfiltered(zoom_level) # {}) =>
        /\ ret
        /\ result \in EndPoints(Unfiltered(zoom_level))
        /\ \A c \in EndPoints(Unfiltered(zoom_level)) :
               FLeq(ApproximateEuclideanDistance(input_coordinate, result),
                    ApproximateEuclideanDistance(input_coordinate, c))

(***************************************************************************)
(* Properties of the nearest-segment query                                 *)
(***************************************************************************)
\* C1: the nearest-segment query returns a segment whose perpendicular
\* distance to p is at most that of every stored segment that is not
\* filtered out, and returns a result whenever an unfiltered segment is stored.
C1_FindReturnsNearestSegment ==
    (query = "find_done" /\ Unfiltered(zoom_level) # {}) =>
        /\ ret
        /\ \A e \in Unfiltered(zoom_level) :
               FLeq(EdgePerpDist(result.segment, input_coordinate),
                    EdgePerpDist(e, input_coordinate))

(***************************************************************************)
(* Properties of the incremental query                                     *)
(***************************************************************************)
IncrementalDone == query = "incremental_done"

ResultDist(i) == EdgePerpDist(result[i].segment, input_coordinate)

BigResults == { i \in 1..Len(result) : ~result[i].segment.is_in_tiny_cc }

TinyResults == { i \in 1..Len(result) : result[i].segment.is_in_tiny_cc }

\* Number of stored big-component segments, counting equal ones.
RECURSIVE CountBig(_, _, _)
CountBig(pages, q, i) ==
    IF q > Len(pages) THEN 0
    ELSE IF i > pages[q].object_count THEN CountBig(pages, q + 1, 1)
    ELSE (IF pages[q].objects[i].is_in_tiny_cc THEN 0 ELSE 1) + CountBig(pages, q, i + 1)

StoredBigCount == CountBig(leaf_file.pages, 1, 1)

\* C2: for k >= 1 the results are appended in non-decreasing perpendicular
\* distance; no stored big-component segment that is not returned is closer
\* to p than a returned big-component one; and min(k, stored big segments)
\* big-component results are returned when the fuse is not reached.
C2_IncrementalNearestFirst ==
    IncrementalDone =>
        /\ \A i, j \in 1..Len(result) : i < j => FLeq(ResultDist(i), ResultDist(j))
        /\ \A i \in BigResults :
               \A e \in StoredSegments :
                   (~e.is_in_tiny_cc /\ e \notin { result[j].segment : j \in BigResults })
                       => ~FLess(EdgePerpDist(e, input_coordinate), ResultDist(i))
        /\ inspected_segments < max_checked_segments =>
               Cardinality(BigResults) = IMin(number_of_results, StoredBigCount)

\* A finished query for two results that returned two big-component segments
\* at different distances and a tiny one, and left a farther big one out.
C2_Witness ==
    /\ IncrementalDone
    /\ number_of_results = 2
    /\ inspected_segments < max_checked_segments
    /\ TinyResults # {}
    /\ \E i, j \in BigResults : FLess(ResultDist(i), ResultDist(j))
    /\ \E e \in StoredSegments :
           ~e.is_in_tiny_cc /\ e \notin { result[j].segment : j \in BigResults }

\* C10 as claimed: at most k phantom nodes are appended, big and tiny
\* components counted together.
C10_AtMostKResults ==
    query \in { "incremental", "incremental_done" } => Len(result) <= number_of_results

\* C10, amended: at most k phantom nodes of each component class are
\* appended, hence at most 2k in all.
C10_AtMostKResultsPerClass ==
    query \in { "incremental", "incremental_done" } =>
        /\ Cardinality(BigResults) <= number_of_results
        /\ Cardinality(TinyResults) <= number_of_results
        /\ Len(result) <= 2 * number_of_results

\* A finished query that returned k results of each class, with more tiny
\* segments stored than it returned.
C10_Witness ==
    /\ IncrementalDone
    /\ Cardinality(BigResults) = number_of_results
    /\ Cardinality(TinyResults) = number_of_results
    /\ inspected_segments > Len(result)

(***************************************************************************)
(* Properties of the tiny-component filter                                 *)
(***************************************************************************)
BigStored == { e \in StoredSegments : ~e.is_in_tiny_cc }

TinyStored == { e \in StoredSegments : e.is_in_tiny_cc }

\* A stored tiny-component segment is strictly nearer to p than every stored
\* big-component one.
TinyStrictlyNearest(p) ==
    \E t \in TinyStored :
        \A b \in BigStored : FLess(EdgePerpDist(t, p), EdgePerpDist(b, p))

\* C11: with zoom <= 14 the nearest-segment query never returns a
\* tiny-component segment; when a tiny segment is strictly nearer than every
\* big one, zoom > 14 returns the tiny one and zoom <= 14 returns the nearest
\* big one instead.
C11_TinyFilterFollowsZoom ==
    query = "find_done" =>
        /\ (zoom_level <= 14 /\ ret) => ~result.segment.is_in_tiny_cc
        /\ (zoom_level > 14 /\ TinyStrictlyNearest(input_coordinate)) =>
               (ret /\ result.segment.is_in_tiny_cc)
        /\ (zoom_level <= 14 /\ TinyStrictlyNearest(input_coordinate) /\ BigStored # {}) =>
               /\ ret
               /\ ~result.segment.is_in_tiny_cc
               /\ \A b \in BigStored :
                      FLeq(EdgePerpDist(result.segment, input_coordinate),
                           EdgePerpDist(b, input_coordinate))

(***************************************************************************)
(* Properties of the max_checked_segments fuse                             *)
(***************************************************************************)
\* C12: the incremental query never inspects more segment entries than
\* max_checked_segments.
C12_FuseBoundsInspectedSegments ==
    query \in { "incremental", "incremental_done" } =>
        inspected_segments <= max_checked_segments

(***************************************************************************)
(* Properties of the weights of the phantom node                           *)
(***************************************************************************)
\* The nearest-segment query returned a segment with both node ids set whose
\* endpoint u is the query point.
ReturnedAtEndpointU ==
    /\ query = "find_done" /\ ret
    /\ input_coordinate = CoordAt(result.segment.u)
    /\ result.location = input_coordinate
    /\ SPECIAL_NODEID # result.forward_node_id
    /\ SPECIAL_NODEID # result.reverse_node_id

\* C20 as claimed: when the query point is endpoint u of the winning segment
\* the phantom node carries the forward weight unchanged and the reverse
\* weight multiplied by 1.
C20_WeightsUnchangedAtEndpointU ==
    ReturnedAtEndpointU =>
        /\ result.forward_weight = result.segment.forward_weight
        /\ result.reverse_weight = result.segment.reverse_weight

\* C20, amended: at endpoint u of a segment with u # v the ratio is 0, the
\* forward weight becomes 0 and the reverse weight is unchanged; for a
\* segment with u = v the ratio is 1, the forward weight is unchanged and
\* the reverse weight becomes 0.
C20_WeightsScaledByRatioAtEndpointU ==
    ReturnedAtEndpointU =>
        IF CoordAt(result.segment.u) # CoordAt(result.segment.v)
        THEN /\ result.forward_weight = 0
             /\ result.reverse_weight = result.segment.reverse_weight
        ELSE /\ result.forward_weight = result.segment.forward_weight
             /\ result.reverse_weight = 0

\* The query point is endpoint u of the returned segment, which has two
\* different endpoints and a positive forward weight.
C20_Witness ==
    /\ ReturnedAtEndpointU
    /\ CoordAt(result.segment.u) # CoordAt(result.segment.v)
    /\ result.segment.forward_weight > 0

(***************************************************************************)
(* FixUpRoundingIssue as a function: applied to every pair of an input     *)
(* coordinate and a phantom location of a small grid, once and again.      *)
(* result holds the phantom node before, after one and after two calls.    *)
(***************************************************************************)
FixUpCoordinates == { Coord(lat, lon) : lat \in (0 - 1)..MaxCoord, lon \in (0 - 1)..MaxCoord }

InitFixUp ==
    /\ input_data_vector = <<>>
    /\ pc = "none"
    /\ input_wrapper_vector = <<>>
    /\ m_element_count = 0
    /\ leaf_file = NoFile
    /\ tree_nodes_in_level = <<>>
    /\ m_search_tree = <<>>
    /\ tree_file = NoFile
    /\ StreamIdle
    /\ HashIdle
    /\ query = "fixup"
    /\ input_coordinate \in FixUpCoordinates
    /\ result \in { << PhantomNode(NoEdge, c) >> : c \in FixUpCoordinates }
    /\ zoom_level = 0
    /\ number_of_results = 0
    /\ max_checked_segments = 0
    /\ traversal_queue = EmptyQueue
    /\ min_dist = FLT_MAX
    /\ min_max_dist = FLT_MAX
    /\ min_found_distances = <<>>
    /\ inspected_segments = 0
    /\ number_of_results_found_in_big_cc = 0
    /\ number_of_results_found_in_tiny_cc = 0
    /\ nearest_edge = NoEdge
    /\ ret = FALSE

\* One more call of FixUpRoundingIssue on the phantom node of the last call.
FixUpApply ==
    /\ query = "fixup"
    /\ Len(result) < 3
    /\ result' = Append(result, FixUpRoundingIssue(input_coordinate, result[Len(result)]))
    /\ UNCHANGED << hashVars, buildVars, streamVars, query, input_coordinate, zoom_level,
                    number_of_results, max_checked_segments, traversal_queue, min_dist,
                    min_max_dist, min_found_distances, inspected_segments,
                    number_of_results_found_in_big_cc, number_of_results_found_in_tiny_cc,
                    nearest_edge, ret >>

SpecFixUp == InitFixUp /\ [][FixUpApply]_vars

\* The component the fix-up must give: the input's when the two differ by 1
\* in absolute value, the phantom's otherwise.
Snapped(input, own) == IF input - own = 1 \/ own - input = 1 THEN input ELSE own

\* C19: the second call of FixUpRoundingIssue gives what the first gave, and
\* the first sets lon (lat) to the input's exactly when the two differ by 1
\* in absolute value, leaving everything else as it was.
C19_FixUpIdempotent ==
    query = "fixup" =>
        /\ Len(result) >= 3 => result[3] = result[2]
        /\ Len(result) >= 2 =>
               result[2] = [result[1] EXCEPT
                               !.location = Coord(Snapped(input_coordinate.lat, result[1].location.lat),
                                                  Snapped(input_coordinate.lon, result[1].location.lon))]

\* Two calls were made on a location whose lon the first call moved and
\* whose lat, more than 1 away from the input's, it left alone.
C19_Witness ==
    /\ query = "fixup"
    /\ Len(result) = 3
    /\ result[2].location.lon # result[1].location.lon
    /\ result[2].location.lat = result[1].location.lat
    /\ result[1].location.lat - input_coordinate.lat > 1

(***************************************************************************)
(* Properties of the value the queries return                              *)
(***************************************************************************)
\* The closest-endpoint query wrote result_coordinate: min_dist is lowered
\* by the assignments that write it (lines 610-614 and 623-627) and by
\* nothing else.
LocateWroteResult == FLess(min_dist, FLT_MAX)

\* C14: the closest-endpoint query returns true exactly when it wrote the
\* output from a stored segment, whatever the output held on entry.
C14_ReturnsWhetherOutputWasSet ==
    query = "locate_done" => (ret <=> LocateWroteResult)

(***************************************************************************)
(* LoadLeafFromDisk, lines 1176-1193, on a leaf file whose read can fail:  *)
(* one thread, so that nothing but the failure disturbs the stream.        *)
(***************************************************************************)
ReaderThread == "t1"

\* Line 1191 when the operating system reports an error for the read:
\* nothing is stored in result_node, the stream is left failed; line 1192 is
\* a BOOST_ASSERT_MSG, compiled out of a release build, and the function
\* returns (line 1193).
StreamReadFails(t) ==
    /\ thread[t].pc = "read"
    /\ thread' = [thread EXCEPT ![t].pc = "loaded"]
    /\ leaves_stream' = [leaves_stream EXCEPT !.good = FALSE]
    /\ UNCHANGED << hashVars, buildVars, queryVars >>

NextStreamFaulty ==
    \/ StreamBeginLoad(ReaderThread)
    \/ StreamSeek(ReaderThread)
    \/ StreamRead(ReaderThread)
    \/ StreamReadFails(ReaderThread)
    \/ StreamReturn(ReaderThread)

SpecStreamFaulty == InitStream /\ [][NextBuild \/ OpenIndex \/ NextStreamFaulty]_vars

\* C18: a leaf load never hands the query a page that was not read: when
\* the load returns, result_node holds what a read stored, not the
\* default-constructed LeafNode.
C18_FailedReadIsNotUsed ==
    thread[ReaderThread].pc = "loaded" => thread[ReaderThread].result_node # LeafNode

(***************************************************************************)
(* The build constructor, lines 341-498, called with any input vector, the *)
(* empty one included.  With no segment the loops of lines 391-424 and     *)
(* 430-461 are not entered and line 464 reads element 0 of an empty        *)
(* vector.                                                                 *)
(***************************************************************************)
\* What a read of tree_nodes_in_level[0] can deliver when the vector is
\* empty: memory the program does not own, here a node without children
\* and a node with one child.
IndeterminateTreeNodes ==
    { NewTreeNode,
      [NewTreeNode EXCEPT !.child_count = 1, !.children[1] = 0] }

\* Lines 462-483 on an empty level.  BOOST_ASSERT_MSG at line 462 stops a
\* debug build; in a release build the read of element 0 ends the process
\* or delivers some node, which is stored as the root.
StoreRootOfEmptyLevel ==
    /\ pc = "pack_levels"
    /\ tree_nodes_in_level = <<>>
    /\ \/ /\ pc' = "aborted"
          /\ UNCHANGED m_search_tree
       \/ /\ \E node \in IndeterminateTreeNodes :
                 m_search_tree' = ReverseAndRenumber(<< node >>, m_search_tree)
          /\ pc' = "persist"
    /\ UNCHANGED << hashVars, input_data_vector, input_wrapper_vector, m_element_count, leaf_file,
                    tree_nodes_in_level, tree_file, queryVars, streamVars >>

InitBuildAny == InitWith(SeqsUpTo(BuildPool, MaxN) \cup { <<>> })

SpecBuildAny == InitBuildAny /\ [][NextBuild \/ StoreRootOfEmptyLevel]_vars

\* C16: a build called with zero segments emits no file and stores no
\* root: no leaf file, no tree file, an empty tree array.
C16_EmptyBuildEmitsNoFile ==
    input_data_vector = <<>> =>
        /\ leaf_file = NoFile
        /\ tree_file = NoFile
        /\ m_search_tree = <<>>

(***************************************************************************)
(* Opening an index whose files were touched after the build: the read     *)
(* constructor, lines 501-543, finds each file as the file system has it.  *)
(***************************************************************************)
IndexFiles == { "tree", "leaf" }

\* The tree file as lines 485-493 wrote it.
TreeFileAsWritten ==
    /\ tree_file.exists
    /\ tree_file # EmptyFile
    /\ tree_file.size_of_tree = Len(tree_file.nodes)

\* The leaf file as lines 385-427 wrote it.
LeafFileAsWritten == leaf_file.exists /\ leaf_file # EmptyFile

\* A file of the finished build is deleted before the index is opened.
RemoveIndexFile(f) ==
    /\ pc = "done"
    /\ IF f = "tree"
       THEN TreeFileAsWritten /\ tree_file' = NoFile /\ UNCHANGED leaf_file
       ELSE LeafFileAsWritten /\ leaf_file' = NoFile /\ UNCHANGED tree_file
    /\ UNCHANGED << hashVars, input_data_vector, pc, input_wrapper_vector, m_element_count,
                    tree_nodes_in_level, m_search_tree, queryVars, streamVars >>

\* A file of the finished build is cut to size zero.
TruncateIndexFile(f) ==
    /\ pc = "done"
    /\ IF f = "tree"
       THEN TreeFileAsWritten /\ tree_file' = EmptyFile /\ UNCHANGED leaf_file
       ELSE LeafFileAsWritten /\ leaf_file' = EmptyFile /\ UNCHANGED tree_file
    /\ UNCHANGED << hashVars, input_data_vector, pc, input_wrapper_vector, m_element_count,
                    tree_nodes_in_level, m_search_tree, queryVars, streamVars >>

\* The node count at the head of the tree file (line 487) no longer agrees
\* with the nodes that follow it: one more or one fewer is declared.
CorruptTreeSize ==
    /\ pc = "done"
    /\ TreeFileAsWritten
    /\ \E declared \in { Len(tree_file.nodes) - 1, Len(tree_file.nodes) + 1 } :
           tree_file' = [tree_file EXCEPT !.size_of_tree = declared]
    /\ UNCHANGED << hashVars, input_data_vector, pc, input_wrapper_vector, m_element_count, leaf_file,
                    tree_nodes_in_level, m_search_tree, queryVars, streamVars >>

NextOpen ==
    \/ \E f \in IndexFiles : RemoveIndexFile(f)
    \/ \E f \in IndexFiles : TruncateIndexFile(f)
    \/ CorruptTreeSize
    \/ OpenIndex
    \/ OpenIndexFails

SpecOpen == InitStream /\ [][NextBuild \/ NextOpen]_vars

\* C15: opening the index succeeds when the tree file and the leaf file
\* both exist and are not empty; otherwise it fails and leaves no tree.
C15_OpenFailsOnMissingOrEmptyFile ==
    [][ (pc = "done" /\ pc' # "done") =>
            IF /\ tree_file.exists /\ tree_file # EmptyFile
               /\ leaf_file.exists /\ leaf_file # EmptyFile
            THEN pc' = "open"
            ELSE pc' = "open_failed" /\ m_search_tree' = <<>> ]_vars

\* An open that failed on an empty leaf file after reading a sound tree
\* file.
C15_Witness ==
    /\ pc = "open_failed"
    /\ TreeFileAsWritten
    /\ leaf_file = EmptyFile

\* C17: an index is never opened from a tree file whose declared node
\* count disagrees with the nodes it holds.
C17_CorruptTreeFileIsNotOpened ==
    pc = "open" => tree_file.size_of_tree = Len(tree_file.nodes)

(***************************************************************************)
(* Round trip: the closest-endpoint query, lines 570-644, on the instance  *)
(* the build constructor made and on the one the read constructor made     *)
(* from the files of that build.                                           *)
(***************************************************************************)
\* Lines 604-605 with an empty m_coordinate_list: operator-> on a null
\* shared_ptr.  The process ends, or the scan goes on with whatever the
\* reads deliver as end points and may or may not take one as the result.
LocateScanWithoutCoordinates ==
    /\ query = "locate"
    /\ traversal_queue # EmptyQueue
    /\ m_coordinate_list = NullPointer
    /\ \E current_query_node \in Top(traversal_queue) :
         /\ ~LocatePruned(current_query_node, min_dist, min_max_dist)
         /\ m_search_tree[current_query_node.node_id + 1].child_is_on_disk
         /\ \/ /\ query' = "crashed"
               /\ UNCHANGED << traversal_queue, min_dist, result >>
            \/ /\ traversal_queue' = Pop(traversal_queue, current_query_node)
               /\ \/ UNCHANGED << min_dist, result >>
                  \/ /\ min_dist' = Zero
                     /\ result' \in QueryPoints
               /\ UNCHANGED query
    /\ UNCHANGED << hashVars, buildVars, streamVars, input_coordinate, zoom_level, number_of_results,
                    max_checked_segments, min_max_dist, min_found_distances, inspected_segments,
                    number_of_results_found_in_big_cc, number_of_results_found_in_tiny_cc,
                    nearest_edge, ret >>

NextRoundTrip ==
    \/ OpenIndex
    \/ LocateStart
    \/ LocateOnBuiltInstance
    \/ LocateStep
    \/ LocateScanWithoutCoordinates
    \/ LocateReturn

SpecRoundTrip == InitStream /\ [][NextBuild \/ NextRoundTrip]_vars

\* The tree array and the element count of the instance equal what the
\* files of the build hold, before and after the index is reopened.
TreeEqualsFiles ==
    pc \in { "done", "open" } =>
        /\ m_search_tree = tree_file.nodes
        /\ m_element_count = leaf_file.element_count

\* C13: the reopened tree array and element count equal the built ones,
\* and a query runs with the coordinate table of the build on either
\* instance, and runs to its end.
C13_RoundTripKeepsTreeAndCoordinates ==
    /\ TreeEqualsFiles
    /\ query # NoQuery => m_coordinate_list = SharedPointer(coordinate_list)
    /\ query # "crashed"

(***************************************************************************)
(* Shape of the packed tree                                                *)
(***************************************************************************)
\* The node whose children hold node i: the root has none.
ParentOf(i) == CHOOSE k \in 0..(i - 1) : ~Node(k).child_is_on_disk /\ i \in ChildIds(k)

RECURSIVE Depth(_)
Depth(i) == IF i = 0 THEN 0 ELSE 1 + Depth(ParentOf(i))

NodesAtDepth(d) == { i \in 0..(TreeSize - 1) : Depth(i) = d }

LeafReferencingNodes == { i \in 0..(TreeSize - 1) : Node(i).child_is_on_disk }

\* The nodes of a level are stored in the order they were packed and the
\* array is reversed afterwards: the parent packed last has the smallest
\* index of its level.
LastPackedAtDepth(d) == CHOOSE i \in NodesAtDepth(d) : \A k \in NodesAtDepth(d) : i <= k

\* C21: the built tree is packed level by level: the leaf-referencing nodes
\* share one depth, every leaf page but the last is full, every parent of a
\* level but the one packed last has BRANCHING_FACTOR children, a level of
\* m nodes has ceil(m / BRANCHING_FACTOR) parents, and
\* BRANCHING_FACTOR * LEAF_NODE_SIZE + 1 segments give two levels above the
\* leaf-referencing nodes.
C21_PackedLevelByLevel ==
    BuildDone =>
        /\ \A i, k \in LeafReferencingNodes : Depth(i) = Depth(k)
        /\ \A p \in 1..(PageCount - 1) : leaf_file.pages[p].object_count = LEAF_NODE_SIZE
        /\ \A i \in 0..(TreeSize - 1) :
               ~Node(i).child_is_on_disk =>
                   /\ Node(i).child_count >= 1
                   /\ Node(i).child_count <= BRANCHING_FACTOR
                   /\ i # LastPackedAtDepth(Depth(i)) => Node(i).child_count = BRANCHING_FACTOR
        /\ \A i \in LeafReferencingNodes : \A d \in 0..(Depth(i) - 1) :
               Cardinality(NodesAtDepth(d)) =
                   CeilDiv(Cardinality(NodesAtDepth(d + 1)), BRANCHING_FACTOR)
        /\ Len(input_data_vector) = BRANCHING_FACTOR * LEAF_NODE_SIZE + 1 =>
               \A i \in LeafReferencingNodes : Depth(i) = 2

\* A tree built from BRANCHING_FACTOR * LEAF_NODE_SIZE + 1 segments: the
\* last leaf page and the parent packed last on the level above the
\* leaf-referencing nodes are not full.
C21_Witness ==
    /\ BuildDone
    /\ Len(input_data_vector) = BRANCHING_FACTOR * LEAF_NODE_SIZE + 1
    /\ leaf_file.pages[PageCount].object_count < LEAF_NODE_SIZE
    /\ Node(LastPackedAtDepth(1)).child_count < BRANCHING_FACTOR
    /\ \E i \in LeafReferencingNodes : Depth(i) = 2

(***************************************************************************)
(* Leaf-referencing nodes and their pages                                  *)
(***************************************************************************)
\* The end points of the objects stored in the used slots of a page.
PageEndPoints(page) ==
    UNION { { CoordAt(page.objects[i].u), CoordAt(page.objects[i].v) } :
                i \in 1..page.object_count }

SetMin(S) == CHOOSE x \in S : \A y \in S : x <= y

SetMax(S) == CHOOSE x \in S : \A y \in S : x >= y

\* The smallest rectangle around a non-empty set of coordinates.
BoundingRectangle(points) ==
    [min_lon |-> SetMin({ c.lon : c \in points }), max_lon |-> SetMax({ c.lon : c \in points }),
     min_lat |-> SetMin({ c.lat : c \in points }), max_lat |-> SetMax({ c.lat : c \in points })]

\* C22: in the final array children[0] of every leaf-referencing node is
\* the index of a leaf page, no two of these nodes name the same page, there
\* is one for every page, and the rectangle of the node is the min/max of the
\* end points of the objects of that page.
C22_LeafNodeKeepsPageIndexAndExactMBR ==
    BuildDone =>
        /\ Cardinality(LeafReferencingNodes) = PageCount
        /\ \A i \in LeafReferencingNodes :
               /\ Child(Node(i), 0) >= 0
               /\ Child(Node(i), 0) < PageCount
               /\ Node(i).minimum_bounding_rectangle =
                      BoundingRectangle(PageEndPoints(leaf_file.pages[Child(Node(i), 0) + 1]))
        /\ \A i, k \in LeafReferencingNodes :
               Child(Node(i), 0) = Child(Node(k), 0) => i = k

\* A finished tree of several pages: a leaf-referencing node whose page
\* index differs from what the renumbering of line 479 would make of it,
\* and two pages with different rectangles.
C22_Witness ==
    /\ BuildDone
    /\ PageCount > 1
    /\ \E i \in LeafReferencingNodes :
           Child(Node(i), 0) # RenumberedId(TreeSize, Child(Node(i), 0))
    /\ \E i, k \in LeafReferencingNodes :
           Node(i).minimum_bounding_rectangle # Node(k).minimum_bounding_rectangle

(***************************************************************************)
(* Content of the leaf file                                                *)
(***************************************************************************)
\* The used slots of the pages, in page order and slot order.
RECURSIVE StoredObjects(_, _)
StoredObjects(pages, p) ==
    IF p > Len(pages) THEN <<>>
    ELSE SubSeq(pages[p].objects, 1, pages[p].object_count) \o StoredObjects(pages, p + 1)

Occurrences(s, x) == Cardinality({ i \in 1..Len(s) : s[i] = x })

\* The Hilbert value lines 357-381 compute for a segment.
HilbertValueOf(edge) == WrappedInputElement(<< edge >>, 0).m_hilbert_value

StoredIsSortedPermutation ==
    LeafFileClosed =>
        LET stored == StoredObjects(leaf_file.pages, 1)
        IN  /\ Len(stored) = Len(input_data_vector)
            /\ \A e \in Range(input_data_vector) :
                   Occurrences(stored, e) = Occurrences(input_data_vector, e)
            /\ \A i \in 1..(Len(stored) - 1) :
                   HilbertValueOf(stored[i]) <= HilbertValueOf(stored[i + 1])

\* C27: the used slots of the written pages hold every input segment
\* exactly once, in non-decreasing Hilbert value, and no step of the build
\* changes the input vector.
C27_LeafPagesAreSortedPermutation ==
    /\ []StoredIsSortedPermutation
    /\ [][input_data_vector' = input_data_vector]_vars

\* A closed leaf file of several pages made from an input that was not in
\* Hilbert order and holds a segment twice.
C27_Witness ==
    /\ LeafFileClosed
    /\ PageCount > 1
    /\ \E i \in 1..(Len(input_data_vector) - 1) :
           HilbertValueOf(input_data_vector[i]) > HilbertValueOf(input_data_vector[i + 1])
    /\ \E i, k \in 1..Len(input_data_vector) :
           i # k /\ input_data_vector[i] = input_data_vector[k]

(***************************************************************************)
(* RectangleInt2D::Contains, GetMinDist and GetMinMaxDist, lines 139-246,  *)
(* applied to a rectangle and a point: the rectangle of a leaf page made   *)
(* by InitializeMBRectangle from the segments of the page, or any          *)
(* rectangle with min <= max on both axes.                                 *)
(***************************************************************************)
\* Points inside the coordinate range and one unit outside of it, on every
\* side.
RectanglePoints ==
    { Coord(lat, lon) : lat \in (0 - 1)..(MaxCoord + 1), lon \in (0 - 1)..(MaxCoord + 1) }

OrderedRectangles ==
    { r \in [min_lon : 0..MaxCoord, max_lon : 0..MaxCoord,
             min_lat : 0..MaxCoord, max_lat : 0..MaxCoord] :
          r.min_lon <= r.max_lon /\ r.min_lat <= r.max_lat }

\* The segments of one leaf page.
PageInputs == { input \in DescendingInputs : Len(input) <= LEAF_NODE_SIZE }

RectangleNode(rectangle) == [NewTreeNode EXCEPT !.minimum_bounding_rectangle = rectangle]

InitRectangle ==
    /\ \/ /\ input_data_vector \in PageInputs
          /\ tree_nodes_in_level =
                 << RectangleNode(InitializeMBRectangle(EmptyRectangle, input_data_vector,
                                                        Len(input_data_vector))) >>
       \/ /\ input_data_vector = <<>>
          /\ tree_nodes_in_level \in { << RectangleNode(r) >> : r \in OrderedRectangles }
    /\ pc = "none"
    /\ input_wrapper_vector = <<>>
    /\ m_element_count = 0
    /\ leaf_file = NoFile
    /\ m_search_tree = <<>>
    /\ tree_file = NoFile
    /\ StreamIdle
    /\ HashIdle
    /\ query = "rectangle"
    /\ input_coordinate \in RectanglePoints
    /\ result = InvalidCoordinate
    /\ zoom_level = 0
    /\ number_of_results = 0
    /\ max_checked_segments = 0
    /\ traversal_queue = EmptyQueue
    /\ min_dist = FLT_MAX
    /\ min_max_dist = FLT_MAX
    /\ min_found_distances = <<>>
    /\ inspected_segments = 0
    /\ number_of_results_found_in_big_cc = 0
    /\ number_of_results_found_in_tiny_cc = 0
    /\ nearest_edge = NoEdge
    /\ ret = FALSE

\* The three functions called on the rectangle for input_coordinate.
RectangleDistances ==
    /\ query = "rectangle"
    /\ LET rectangle == tree_nodes_in_level[1].minimum_bounding_rectangle
       IN  /\ ret' = Contains(rectangle, input_coordinate)
           /\ min_dist' = GetMinDist(rectangle, input_coordinate)
           /\ min_max_dist' = GetMinMaxDist(rectangle, input_coordinate)
    /\ query' = "rectangle_done"
    /\ UNCHANGED << hashVars, buildVars, streamVars, input_coordinate, zoom_level, number_of_results,
                    max_checked_segments, traversal_queue, result, min_found_distances,
                    inspected_segments, number_of_results_found_in_big_cc,
                    number_of_results_found_in_tiny_cc, nearest_edge >>

SpecRectangle == InitRectangle /\ [][RectangleDistances]_vars

TheRectangle == tree_nodes_in_level[1].minimum_bounding_rectangle

\* The end points of the segments the rectangle was made from.
InputEndPoints ==
    UNION { { CoordAt(input_data_vector[i].u), CoordAt(input_data_vector[i].v) } :
                i \in 1..Len(input_data_vector) }

PlanarDistance(a, b) ==
    Frac((a.lat - b.lat) * (a.lat - b.lat) + (a.lon - b.lon) * (a.lon - b.lon), 1)

\* C24: for the exact bounding rectangle of a non-empty set of end points
\* and any point p, GetMinMaxDist(p) is at least GetMinDist(p) and at
\* least the distance from p to the nearest end point of the set.
C24_MinMaxDistBoundsNearestEndPoint ==
    (query = "rectangle_done" /\ input_data_vector # <<>>) =>
        /\ TheRectangle = BoundingRectangle(InputEndPoints)
        /\ FLeq(min_dist, min_max_dist)
        /\ \E e \in InputEndPoints : FLeq(PlanarDistance(input_coordinate, e), min_max_dist)

\* A point outside a rectangle with an extent on both axes, none of whose
\* corners nearest to the point is an end point of the set.
C24_Witness ==
    /\ query = "rectangle_done"
    /\ input_data_vector # <<>>
    /\ ~ret
    /\ TheRectangle.min_lat < TheRectangle.max_lat
    /\ TheRectangle.min_lon < TheRectangle.max_lon
    /\ \A e \in InputEndPoints : FLess(min_dist, PlanarDistance(input_coordinate, e))
    /\ FLess(min_dist, min_max_dist)

\* The point of the rectangle nearest to p: p moved onto the rectangle
\* along each axis.
ClampInto(r, p) ==
    Coord(IMax(r.min_lat, IMin(r.max_lat, p.lat)), IMax(r.min_lon, IMin(r.max_lon, p.lon)))

\* C25: for a rectangle with min <= max on both axes and any point p,
\* GetMinDist(p) is 0 exactly when Contains(p) holds, Contains(p) holds
\* exactly when p lies between the bounds on both axes, GetMinDist(p) is
\* the distance from p to the nearest point of the rectangle, and no point
\* of the rectangle is nearer.
C25_MinDistIsDistanceToRectangle ==
    query = "rectangle_done" =>
        /\ ret <=> InsideInclusive(TheRectangle, input_coordinate)
        /\ FEq(min_dist, Zero) <=> ret
        /\ FEq(min_dist, PlanarDistance(input_coordinate, ClampInto(TheRectangle, input_coordinate)))
        /\ \A q \in RectanglePoints :
               InsideInclusive(TheRectangle, q) =>
                   FLeq(min_dist, PlanarDistance(input_coordinate, q))

\* A point straight north of an arbitrary rectangle that has an extent in
\* longitude: the nearest point of the rectangle is on its side, not a
\* corner.
C25_Witness ==
    /\ query = "rectangle_done"
    /\ input_data_vector = <<>>
    /\ input_coordinate.lat > TheRectangle.max_lat
    /\ input_coordinate.lon > TheRectangle.min_lon
    /\ input_coordinate.lon < TheRectangle.max_lon
    /\ FLess(Zero, min_dist)

(***************************************************************************)
(* RectangleInt2D::Intersects, lines 128-137, applied to two rectangles    *)
(* with min <= max on both axes.                                           *)
(***************************************************************************)
InitIntersects ==
    /\ input_data_vector = <<>>
    /\ tree_nodes_in_level \in
           { << RectangleNode(a), RectangleNode(b) >> : a \in OrderedRectangles,
                                                        b \in OrderedRectangles }
    /\ pc = "none"
    /\ input_wrapper_vector = <<>>
    /\ m_element_count = 0
    /\ leaf_file = NoFile
    /\ m_search_tree = <<>>
    /\ tree_file = NoFile
    /\ StreamIdle
    /\ HashIdle
    /\ query = "intersects"
    /\ input_coordinate = InvalidCoordinate
    /\ result = InvalidCoordinate
    /\ zoom_level = 0
    /\ number_of_results = 0
    /\ max_checked_segments = 0
    /\ traversal_queue = EmptyQueue
    /\ min_dist = FLT_MAX
    /\ min_max_dist = FLT_MAX
    /\ min_found_distances = <<>>
    /\ inspected_segments = 0
    /\ number_of_results_found_in_big_cc = 0
    /\ number_of_results_found_in_tiny_cc = 0
    /\ nearest_edge = NoEdge
    /\ ret = FALSE

\* a.Intersects(b) for the first rectangle a and the second rectangle b.
RectangleIntersects ==
    /\ query = "intersects"
    /\ ret' = Intersects(tree_nodes_in_level[1].minimum_bounding_rectangle,
                         tree_nodes_in_level[2].minimum_bounding_rectangle)
    /\ query' = "intersects_done"
    /\ UNCHANGED << hashVars, buildVars, streamVars, input_coordinate, zoom_level, number_of_results,
                    max_checked_segments, traversal_queue, min_dist, min_max_dist, result,
                    min_found_distances, inspected_segments, number_of_results_found_in_big_cc,
                    number_of_results_found_in_tiny_cc, nearest_edge >>

SpecIntersects == InitIntersects /\ [][RectangleIntersects]_vars

\* Two closed rectangles share a point: their extents overlap on both axes.
SharePoint(a, b) ==
    /\ a.min_lat <= b.max_lat /\ b.min_lat <= a.max_lat
    /\ a.min_lon <= b.max_lon /\ b.min_lon <= a.max_lon

\* C26: a.Intersects(b) is true exactly when the closed rectangles a and b
\* share a point, and so has the value of b.Intersects(a).
C26_IntersectsIffSharedPoint ==
    query = "intersects_done" =>
        LET a == tree_nodes_in_level[1].minimum_bounding_rectangle
            b == tree_nodes_in_level[2].minimum_bounding_rectangle
        IN  /\ ret <=> SharePoint(a, b)
            /\ ret <=> Intersects(b, a)

(***************************************************************************)
(* The incremental query, lines 647-858, called for any number of results. *)
(***************************************************************************)
NextIncrementalAny ==
    \/ IncrementalStartAny
    \/ IncrementalStep
    \/ IncrementalStepOutOfRange
    \/ IncrementalReturn

SpecIncrementalAny == InitStream /\ [][NextBuild \/ OpenIndex \/ NextIncrementalAny]_vars

\* An index of min_found_distances, 0-based as in the source.
InsideMinFoundDistances(index) == index >= 0 /\ index < Len(min_found_distances)

\* The loop is about to pop an entry and read the threshold (line 680).
AboutToPop == query = "incremental" /\ traversal_queue # EmptyQueue

IndicesInRange ==
    /\ query \in { "incremental", "incremental_done" } =>
           /\ Len(min_found_distances) = number_of_results
           /\ number_of_results_found_in_big_cc <= number_of_results
           /\ number_of_results_found_in_tiny_cc <= number_of_results
    /\ AboutToPop => InsideMinFoundDistances(number_of_results - 1)

\* C30: whatever number of results is asked for, the threshold is read at
\* an index inside min_found_distances on every pop, an accepted
\* big-component segment is written at an index inside it, and both
\* counters stay <= number_of_results.
C30_MinFoundDistancesIndexInRange ==
    /\ []IndicesInRange
    /\ [][number_of_results_found_in_big_cc' = number_of_results_found_in_big_cc + 1 =>
              InsideMinFoundDistances(number_of_results_found_in_big_cc)]_vars

(***************************************************************************)
(* Scores of the entries of the incremental query's queue                  *)
(***************************************************************************)
SpecIncrementalScores == InitStream /\ [][NextBuild \/ OpenIndex \/ NextIncremental]_vars

QueueEntries == BagToSet(traversal_queue)

\* The segments stored below a tree node: the objects of its page, or of
\* the pages below its children.
RECURSIVE SegmentsBelow(_)
SegmentsBelow(node) ==
    IF node.child_is_on_disk
    THEN LET page == leaf_file.pages[Child(node, 0) + 1]
         IN  { page.objects[i] : i \in 1..page.object_count }
    ELSE UNION { SegmentsBelow(m_search_tree[Child(node, j) + 1]) :
                     j \in 0..(node.child_count - 1) }

\* The score of an entry is a lower bound of every segment below it; a
\* segment entry has its perpendicular distance.
ScoreIsLowerBound(entry) ==
    IF entry.is_tree_node
    THEN \A e \in SegmentsBelow(entry.node) :
             FLeq(entry.min_dist, EdgePerpDist(e, input_coordinate))
    ELSE entry.min_dist = EdgePerpDist(entry.node, input_coordinate)

MinDistOfNode(entry) ==
    GetMinDist(entry.node.minimum_bounding_rectangle, input_coordinate)

\* The smallest score in a queue that is not empty.
SmallestScore(queue) ==
    LET entry == CHOOSE x \in BagToSet(queue) :
                     \A y \in BagToSet(queue) : FLeq(x.min_dist, y.min_dist)
    IN  entry.min_dist

\* While the query runs, every segment it has not enqueued yet is stored
\* below a tree node of the queue: no such segment is closer than the
\* smallest score in the queue.
NoCloserSegmentOutsideQueue ==
    \A entry \in QueueEntries :
        entry.is_tree_node =>
            \A e \in SegmentsBelow(entry.node) :
                FLeq(SmallestScore(traversal_queue), EdgePerpDist(e, input_coordinate))

\* A pass of the loop leaves no score in the queue below the score it
\* popped, the smallest of the queue before.
PopsNonDecreasing ==
    (query = "incremental" /\ traversal_queue # EmptyQueue /\ traversal_queue' # EmptyQueue)
        => FLeq(SmallestScore(traversal_queue), SmallestScore(traversal_queue'))

TableSize == 2 * ProbePositions

\* The node ids the callers look up, the largest unsigned value among
\* them, and the keys they store.
NodeIDs == { 0, 1, UnsignedMax }

Keys == { 0, 1 }

\* Lines 39-43.
HashCell(key, id, time) == [key |-> key, id |-> id, time |-> time]

\* Lines 44-48: the default constructor.
DefaultCell == HashCell(UnsignedMax, UnsignedMax, UnsignedMax)

DefaultPositions == [position \in 0..(TableSize - 1) |-> DefaultCell]

\* History values: no cell given yet (an index past the table), no key
\* assigned yet (the key of a default cell, which no caller stores).
NoCell == TableSize

NoKey == DefaultCell.key

NothingHeld == [node \in NodeIDs |-> NoCell]

NothingAssigned == [node \in NodeIDs |-> NoKey]

\* Line 57: the constructor.
InitHash ==
    /\ input_data_vector = <<>>
    /\ pc = "none"
    /\ input_wrapper_vector = <<>>
    /\ m_element_count = 0
    /\ leaf_file = NoFile
    /\ tree_nodes_in_level = <<>>
    /\ m_search_tree = <<>>
    /\ tree_file = NoFile
    /\ QueryIdle
    /\ StreamIdle
    /\ positions = DefaultPositions
    /\ fast_hasher \in [NodeIDs -> 0..(ProbePositions - 1)]
    /\ current_timestamp = 0
    /\ lookup = IdleLookup
    /\ held = NothingHeld
    /\ assigned = NothingAssigned

\* A loop that never advances: the cell at the hashed position is taken
\* whoever holds it.
ProbeNever(cell, timestamp, node) == FALSE

\* Line 62: the condition of the probe loop.
ProbeContinues(cell, timestamp, node) == cell.time = timestamp /\ cell.id # node

\* Line 64: ++position %= (2 << 16), on an unsigned short.
NextPosition(position) == ((position + 1) % ProbePositions) % TableSize

\* Line 61: operator[] starts at the hashed position.
HashCall(node) ==
    /\ lookup.pc = "idle"
    /\ lookup' = [pc |-> "probe", node |-> node, position |-> fast_hasher[node]]
    /\ UNCHANGED << buildVars, queryVars, streamVars, positions, fast_hasher,
                    current_timestamp, held, assigned >>

\* Lines 62-65: one pass of the loop.
HashProbe ==
    /\ lookup.pc = "probe"
    /\ ProbeContinues(positions[lookup.position], current_timestamp, lookup.node)
    /\ lookup' = [lookup EXCEPT !.position = NextPosition(lookup.position)]
    /\ UNCHANGED << buildVars, queryVars, streamVars, positions, fast_hasher,
                    current_timestamp, held, assigned >>

\* Lines 67-69: the loop is left, the cell is stamped and returned.
HashReturn ==
    /\ lookup.pc = "probe"
    /\ ~ProbeContinues(positions[lookup.position], current_timestamp, lookup.node)
    /\ positions' = [positions EXCEPT ![lookup.position].id = lookup.node,
                                      ![lookup.position].time = current_timestamp]
    /\ lookup' = [lookup EXCEPT !.pc = "returned"]
    /\ held' = IF held[lookup.node] = NoCell
               THEN [held EXCEPT ![lookup.node] = lookup.position]
               ELSE held
    /\ UNCHANGED << buildVars, queryVars, streamVars, fast_hasher, current_timestamp, assigned >>

\* Line 54: the caller assigns a key through the returned cell.
HashAssign(key_to_insert) ==
    /\ lookup.pc = "returned"
    /\ positions' = [positions EXCEPT ![lookup.position].key = key_to_insert]
    /\ assigned' = [assigned EXCEPT ![lookup.node] = key_to_insert]
    /\ lookup' = IdleLookup
    /\ UNCHANGED << buildVars, queryVars, streamVars, fast_hasher, current_timestamp, held >>

\* Line 52: the caller reads the key of the returned cell.
HashRead ==
    /\ lookup.pc = "returned"
    /\ lookup' = IdleLookup
    /\ UNCHANGED << buildVars, queryVars, streamVars, positions, fast_hasher,
                    current_timestamp, held, assigned >>

\* Lines 72-80.  The timestamp is an unsigned: it wraps after its maximum.
Clear ==
    /\ lookup.pc = "idle"
    /\ current_timestamp' = (current_timestamp + 1) % (UnsignedMax + 1)
    /\ positions' = IF UnsignedMax = current_timestamp' THEN DefaultPositions ELSE positions
    /\ held' = NothingHeld
    /\ assigned' = NothingAssigned
    /\ UNCHANGED << buildVars, queryVars, streamVars, fast_hasher, lookup >>

HashCalls == \E node \in NodeIDs : HashCall(node)

HashAssigns == \E key_to_insert \in Keys : HashAssign(key_to_insert)

NextHash ==
    \/ HashCalls
    \/ HashProbe
    \/ HashReturn
    \/ HashAssigns
    \/ HashRead
    \/ Clear

SpecHash == InitHash /\ [][NextHash]_vars

\* The body of operator[] runs on one thread without waiting for anything:
\* a pass of the loop that can be taken is taken.
SpecHashFair == SpecHash /\ WF_vars(HashProbe) /\ WF_vars(HashReturn)

\* The nodes accessed since the last Clear.
Accessed == { node \in NodeIDs : held[node] # NoCell }

\* C29: between two Clear calls, while no more distinct nodes have been
\* accessed than there are probe positions, operator[] returns for a node
\* the cell it returned before, distinct nodes have distinct cells, and the
\* cell returned for a node holds the key last assigned through it.
C29_SameNodeSameCell ==
    Cardinality(Accessed) <= ProbePositions =>
        /\ lookup.pc = "returned" =>
               /\ held[lookup.node] = lookup.position
               /\ assigned[lookup.node] # NoKey =>
                      positions[lookup.position].key = assigned[lookup.node]
        /\ \A n, m \in Accessed : n # m => held[n] # held[m]

\* A node is accessed again after another node with the same hash value
\* was accessed and assigned a key.
C29_Witness ==
    /\ lookup.pc = "returned"
    /\ assigned[lookup.node] # NoKey
    /\ \E other \in Accessed :
           /\ other # lookup.node
           /\ fast_hasher[other] = fast_hasher[lookup.node]
           /\ assigned[other] # NoKey
           /\ assigned[other] # assigned[lookup.node]

\* C28: an operator[] call for a node not accessed since the last Clear
\* returns, with a cell no other node holds in the epoch.
C28_NewNodeLookupTerminates ==
    /\ [](\A n, m \in Accessed : n # m => held[n] # held[m])
    /\ (lookup.pc = "probe" /\ held[lookup.node] = NoCell) ~> (lookup.pc = "returned")

=============================================================================
